---- MODULE Spec2Model ----
(***************************************************************************)
(* Fiber reconciliation engine of reakt: the work loop scheduled through   *)
(* requestIdleCallback, the reconciler that matches new elements against   *)
(* the previous render by type, and the commit phase that applies the      *)
(* effects to the host (DOM) tree.                                         *)
(*                                                                         *)
(* Objects live in two heaps: fibers (a sequence of fiber records, a fiber *)
(* is its index) and nodes (a sequence of host nodes, a node is its        *)
(* index).  The index 0 stands for JavaScript's undefined.                 *)
(***************************************************************************)
EXTENDS Integers, Sequences, FiniteSets, TLC

VARIABLES
    fibers,                 \* heap of Fiber objects
    nodes,                  \* heap of host nodes (HTMLElement | Text)
    lastCommitedFiberTree,  \* state.ts: root fiber of the last commit, or undefined
    oldFibersToDelete,      \* state.ts: deletion fibers recorded by the walk
    passes,                 \* one record per startWorkLoop call (its closure)
    hostOps,                \* host operations performed by the latest commit, in order
    slots                   \* idle callbacks delivered since the latest render call

vars == <<fibers, nodes, lastCommitedFiberTree, oldFibersToDelete, passes, hostOps, slots>>

-----------------------------------------------------------------------------
(* Bounds *)

\* number of render calls in a behaviour
MaxRenders == 3

\* number of render calls in a behaviour whose caller does not wait for commits
MaxOverlappingRenders == 2

-----------------------------------------------------------------------------
(* Elements *)

undefined == 0

ROOT_TYPE == "ROOT"

PRIMITIVE_ELEMENT_TYPE == "PRIMITIVE_ELEMENT"

\* createPrimitiveElement: a text element, no children
createPrimitiveElement(value) ==
    [type |-> PRIMITIVE_ELEMENT_TYPE, nodeValue |-> value, attrs |-> {}, children |-> <<>>]

\* createElement(type, props, ...children); attrs are the props other than children
createElement(type, attrs, children) ==
    [type |-> type, nodeValue |-> "", attrs |-> attrs, children |-> children]

isPrimitiveElement(element) == element.type = PRIMITIVE_ELEMENT_TYPE

\* number of element nodes of an element tree
RECURSIVE ElementCount(_)
ElementCount(element) ==
    LET RECURSIVE Sum(_)
        Sum(i) == IF i = 0 THEN 0 ELSE ElementCount(element.children[i]) + Sum(i - 1)
    IN  1 + Sum(Len(element.children))

\* an element tree built by createElement alone: text elements have no children
RECURSIVE WellFormed(_)
WellFormed(element) ==
    /\ isPrimitiveElement(element) => element.children = <<>>
    /\ \A i \in 1..Len(element.children) : WellFormed(element.children[i])

-----------------------------------------------------------------------------
(* Host nodes: the part of the DOM the engine uses *)

Container == 1

ContainerNode ==
    [kind |-> "element", tag |-> "container", nodeValue |-> "", attrs |-> {}, children |-> <<>>]

isTextHTMLNode(N, n) == N[n].kind = "text"

Range(s) == {s[i] : i \in 1..Len(s)}

Without(s, x) == SelectSeq(s, LAMBDA y : y # x)

\* the node whose children hold n, or undefined when n is detached
HostParent(N, n) ==
    IF \E p \in 1..Len(N) : n \in Range(N[p].children)
    THEN CHOOSE p \in 1..Len(N) : n \in Range(N[p].children)
    ELSE undefined

\* document.createTextNode(nodeValue)
createPrimitiveNode(element) ==
    [kind |-> "text", tag |-> "#text", nodeValue |-> element.nodeValue, attrs |-> {},
     children |-> <<>>]

\* document.createElement(type) followed by addProps; no child is attached
createNode(element) ==
    [kind |-> "element", tag |-> element.type, nodeValue |-> "", attrs |-> element.attrs,
     children |-> <<>>]

\* parent.appendChild(child): a child that is attached somewhere is moved;
\* a Text parent cannot take children (HierarchyRequestError)
appendChild(N, parent, child) ==
    IF isTextHTMLNode(N, parent)
    THEN [nodes |-> N, ok |-> FALSE]
    ELSE LET old == HostParent(N, child)
             N1 == IF old = undefined THEN N
                   ELSE [N EXCEPT ![old].children = Without(@, child)]
         IN  [nodes |-> [N1 EXCEPT ![parent].children = Append(@, child)], ok |-> TRUE]

\* parent.removeChild(child): NotFoundError when child is not a child of parent
removeChild(N, parent, child) ==
    IF child \notin Range(N[parent].children)
    THEN [nodes |-> N, ok |-> FALSE]
    ELSE [nodes |-> [N EXCEPT ![parent].children = Without(@, child)], ok |-> TRUE]

\* the host tree below n, without node identities
RECURSIVE Shape(_, _)
Shape(N, n) ==
    [tag |-> N[n].tag, nodeValue |-> N[n].nodeValue, attrs |-> N[n].attrs,
     children |-> [i \in 1..Len(N[n].children) |-> Shape(N, N[n].children[i])]]

\* the nodes of the host tree below n, n included
RECURSIVE Attached(_, _)
Attached(N, n) ==
    {n} \cup UNION {Attached(N, N[n].children[i]) : i \in 1..Len(N[n].children)}

-----------------------------------------------------------------------------
(* Fibers *)

NewFiber(element, dom, parent, alternate, effect) ==
    [element |-> element, dom |-> dom, parent |-> parent, child |-> undefined,
     sibling |-> undefined, alternate |-> alternate, effect |-> effect]

\* f, f.sibling, f.sibling.sibling, ...
RECURSIVE SiblingChain(_, _)
SiblingChain(F, f) ==
    IF f = undefined THEN <<>> ELSE <<f>> \o SiblingChain(F, F[f].sibling)

\* the child fibers of f, in sibling order
ChildFibers(F, f) == SiblingChain(F, F[f].child)

\* the children of f's alternate: the previous render's fibers of this position
OldChildFibers(F, f) ==
    IF F[f].alternate = undefined THEN <<>> ELSE ChildFibers(F, F[f].alternate)

\* the fibers reachable from f through child and sibling links, f included
RECURSIVE FiberTree(_, _)
FiberTree(F, f) ==
    IF f = undefined THEN {}
    ELSE {f} \cup FiberTree(F, F[f].child) \cup FiberTree(F, F[f].sibling)

-----------------------------------------------------------------------------
(* Reconciler (fiber/reconciliation.ts) *)

\* Map from element type to the previous render's child fibers of that type,
\* in sibling order
createOldFibersMap(F, fiber) ==
    LET old == OldChildFibers(F, fiber)
    IN  [t \in {F[old[i]].element.type : i \in 1..Len(old)} |->
            SelectSeq(old, LAMBDA o : F[o].element.type = t)]

\* Candidates without the lookup by type: the previous children of every
\* type, as a reconciler that pairs fibers before it compares their types
CandidatesOfAnyType(oldFiberMap, type) ==
    LET RECURSIVE Concat(_)
        Concat(types) ==
            IF types = {} THEN <<>>
            ELSE LET t == CHOOSE x \in types : TRUE
                 IN  oldFiberMap[t] \o Concat(types \ {t})
    IN  Concat(DOMAIN oldFiberMap)

\* oldFiberMap.get(type) || []
Candidates(oldFiberMap, type) ==
    IF type \in DOMAIN oldFiberMap THEN oldFiberMap[type] ELSE <<>>

\* FindUnmatched with the negation of the predicate dropped: it looks for a
\* candidate that is already matched, and the set of matches starts empty
FindUnmatchedNegationDropped(candidates, matchedOldFibers) ==
    LET taken == SelectSeq(candidates, LAMBDA c : c \in matchedOldFibers)
    IN  IF taken = <<>> THEN undefined ELSE Head(taken)

\* FindUnmatched without the predicate: the first candidate of the type,
\* whether an earlier child has claimed it or not
FindUnmatchedTakesFirst(candidates, matchedOldFibers) ==
    IF candidates = <<>> THEN undefined ELSE Head(candidates)

\* candidates.find(candidate => !matchedOldFibers.has(candidate))
FindUnmatched(candidates, matchedOldFibers) ==
    LET free == SelectSeq(candidates, LAMBDA c : c \notin matchedOldFibers)
    IN  IF free = <<>> THEN undefined ELSE Head(free)

\* createChildFiber that gives a fiber without a match the host node of its
\* parent instead of none
createChildFiberOnParentHostNode(F, element, oldFiber, parent) ==
    LET hasOldFiber == oldFiber # undefined
        typesMatch == hasOldFiber /\ element.type = F[oldFiber].element.type
    IN  IF typesMatch
        THEN NewFiber(element, F[oldFiber].dom, parent, oldFiber, "UPDATE")
        ELSE NewFiber(element, F[parent].dom, parent, oldFiber, "PLACEMENT")

\* createChildFiber that never reuses a host node: the fiber of a child that
\* has a match is a PLACEMENT too, with the match as its alternate
createChildFiberAlwaysPlaces(F, element, oldFiber, parent) ==
    NewFiber(element, undefined, parent, oldFiber, "PLACEMENT")

\* The fiber of a new child element: UPDATE when an old fiber of the same
\* type was found (its host node is reused), PLACEMENT otherwise
createChildFiber(F, element, oldFiber, parent) ==
    LET hasOldFiber == oldFiber # undefined
        typesMatch == hasOldFiber /\ element.type = F[oldFiber].element.type
    IN  IF typesMatch
        THEN NewFiber(element, F[oldFiber].dom, parent, oldFiber, "UPDATE")
        ELSE NewFiber(element, undefined, parent, oldFiber, "PLACEMENT")

\* children.forEach without previousSibling = childFiber at its end: every
\* child becomes parent.child and no sibling is ever linked
RECURSIVE createChildrenFromForgetsSibling(_, _, _, _)
createChildrenFromForgetsSibling(st, parent, oldFiberMap, i) ==
    LET children == st.fibers[parent].element.children
    IN  IF i > Len(children) THEN st
        ELSE LET child == children[i]
                 oldFiber == FindUnmatched(Candidates(oldFiberMap, child.type), st.matched)
                 matched == IF oldFiber # undefined THEN st.matched \cup {oldFiber}
                            ELSE st.matched
                 childFiber == Len(st.fibers) + 1
                 F1 == Append(st.fibers, createChildFiber(st.fibers, child, oldFiber, parent))
                 F2 == [F1 EXCEPT ![parent].child = childFiber]
             IN  createChildrenFromForgetsSibling(
                     [fibers |-> F2, matched |-> matched, previousSibling |-> undefined],
                     parent, oldFiberMap, i + 1)

\* children.forEach from child i on; st = [fibers, matched, previousSibling]
RECURSIVE createChildrenFrom(_, _, _, _)
createChildrenFrom(st, parent, oldFiberMap, i) ==
    LET children == st.fibers[parent].element.children
    IN  IF i > Len(children) THEN st
        ELSE LET child == children[i]
                 oldFiber == FindUnmatched(Candidates(oldFiberMap, child.type), st.matched)
                 matched == IF oldFiber # undefined THEN st.matched \cup {oldFiber}
                            ELSE st.matched
                 childFiber == Len(st.fibers) + 1
                 F1 == Append(st.fibers, createChildFiber(st.fibers, child, oldFiber, parent))
                 F2 == IF st.previousSibling = undefined
                       THEN [F1 EXCEPT ![parent].child = childFiber]
                       ELSE [F1 EXCEPT ![st.previousSibling].sibling = childFiber]
             IN  createChildrenFrom(
                     [fibers |-> F2, matched |-> matched, previousSibling |-> childFiber],
                     parent, oldFiberMap, i + 1)

createChildrenFibers(F, parent, oldFiberMap) ==
    createChildrenFrom([fibers |-> F, matched |-> {}, previousSibling |-> undefined],
                       parent, oldFiberMap, 1)

\* createOldFibersToDelete without the test for a match: a deletion fiber
\* for every old child
createOldFibersToDeleteRecordsAll(F, parent, matchedOldFibers) ==
    LET old == OldChildFibers(F, parent)
    IN  [i \in 1..Len(old) |->
            NewFiber(F[old[i]].element, F[old[i]].dom, parent, undefined, "DELETION")]

\* One deletion fiber per old child that no new child matched, in sibling
\* order: it carries the old element and host node, the new parent, no child
createOldFibersToDelete(F, parent, matchedOldFibers) ==
    LET unmatched == SelectSeq(OldChildFibers(F, parent),
                               LAMBDA o : o \notin matchedOldFibers)
    IN  [i \in 1..Len(unmatched) |->
            NewFiber(F[unmatched[i]].element, F[unmatched[i]].dom, parent,
                     undefined, "DELETION")]

\* reconcileChildFibers(fiber), addOldFibersToDelete included;
\* D is oldFibersToDelete
reconcileChildFibers(F, D, fiber) ==
    LET oldFiberMap == createOldFibersMap(F, fiber)
        made == createChildrenFibers(F, fiber, oldFiberMap)
        fibersToDelete == createOldFibersToDelete(made.fibers, fiber, made.matched)
        base == Len(made.fibers)
    IN  [fibers |-> made.fibers \o fibersToDelete,
         oldFibersToDelete |-> D \o [i \in 1..Len(fibersToDelete) |-> base + i]]

-----------------------------------------------------------------------------
(* Work loop (fiber/index.ts) *)

\* doesFiberHaveValidParent with the test of the parent's host node turned
\* round: the parent has to be a text node
doesFiberHaveValidParentOnlyText(F, N, fiber) ==
    \/ F[fiber].element.type = ROOT_TYPE
    \/ /\ F[fiber].parent # undefined
       /\ F[F[fiber].parent].dom # undefined
       /\ isTextHTMLNode(N, F[F[fiber].parent].dom)

doesFiberHaveValidParent(F, N, fiber) ==
    \/ F[fiber].element.type = ROOT_TYPE
    \/ /\ F[fiber].parent # undefined
       /\ F[F[fiber].parent].dom # undefined
       /\ ~isTextHTMLNode(N, F[F[fiber].parent].dom)

\* createNodeFromFiber as a renderer without a commit phase has it: the new
\* host node is appended to the host node of the parent at once
createNodeFromFiberAppends(F, N, fiber) ==
    IF F[fiber].dom # undefined THEN [fibers |-> F, nodes |-> N]
    ELSE LET domNode == IF isPrimitiveElement(F[fiber].element)
                        THEN createPrimitiveNode(F[fiber].element)
                        ELSE createNode(F[fiber].element)
             N1 == Append(N, domNode)
         IN  [fibers |-> [F EXCEPT ![fiber].dom = Len(N) + 1],
              nodes |-> IF F[fiber].parent = undefined THEN N1
                        ELSE appendChild(N1, F[F[fiber].parent].dom, Len(N) + 1).nodes]

\* createNodeFromFiber that also resets the effect of the previous-render
\* fiber whose host node the fiber has taken over
createNodeFromFiberResetsAlternate(F, N, fiber) ==
    IF F[fiber].dom # undefined
    THEN [fibers |-> IF F[fiber].alternate = undefined THEN F
                     ELSE [F EXCEPT ![F[fiber].alternate].effect = "NONE"],
          nodes |-> N]
    ELSE LET domNode == IF isPrimitiveElement(F[fiber].element)
                        THEN createPrimitiveNode(F[fiber].element)
                        ELSE createNode(F[fiber].element)
         IN  [fibers |-> [F EXCEPT ![fiber].dom = Len(N) + 1],
              nodes |-> Append(N, domNode)]

\* Gives the fiber a host node unless it has one; the node stays detached
createNodeFromFiber(F, N, fiber) ==
    IF F[fiber].dom # undefined THEN [fibers |-> F, nodes |-> N]
    ELSE LET domNode == IF isPrimitiveElement(F[fiber].element)
                        THEN createPrimitiveNode(F[fiber].element)
                        ELSE createNode(F[fiber].element)
         IN  [fibers |-> [F EXCEPT ![fiber].dom = Len(N) + 1],
              nodes |-> Append(N, domNode)]

\* the while loop of findNextFiberInTraversal
RECURSIVE NextSiblingUp(_, _)
NextSiblingUp(F, nextFiber) ==
    IF nextFiber = undefined THEN undefined
    ELSE IF F[nextFiber].sibling # undefined THEN F[nextFiber].sibling
    ELSE NextSiblingUp(F, F[nextFiber].parent)

\* findNextFiberInTraversal that looks for a sibling before it looks for the child
findNextFiberInTraversalSiblingFirst(F, fiber) ==
    IF F[fiber].sibling # undefined THEN F[fiber].sibling
    ELSE IF F[fiber].child # undefined THEN F[fiber].child
    ELSE NextSiblingUp(F, F[fiber].parent)

findNextFiberInTraversal(F, fiber) ==
    IF F[fiber].child # undefined THEN F[fiber].child ELSE NextSiblingUp(F, fiber)

\* performUnitOfWork(fiber): result "threw" for the two fatal errors, "skipped"
\* for the Text parent (warns and returns undefined), "done" otherwise
performUnitOfWork(F, N, D, fiber) ==
    IF ~doesFiberHaveValidParent(F, N, fiber)
    THEN [fibers |-> F, nodes |-> N, oldFibersToDelete |-> D, next |-> undefined,
          result |-> IF F[fiber].parent = undefined \/ F[F[fiber].parent].dom = undefined
                     THEN "threw" ELSE "skipped"]
    ELSE LET made == createNodeFromFiber(F, N, fiber)
             rec == reconcileChildFibers(made.fibers, D, fiber)
         IN  [fibers |-> rec.fibers, nodes |-> made.nodes,
              oldFibersToDelete |-> rec.oldFibersToDelete,
              next |-> findNextFiberInTraversal(rec.fibers, fiber),
              result |-> "done"]

-----------------------------------------------------------------------------
(* Commit phase (fiber/commit.ts, fiber/utils.ts) *)
(* A commit state st = [nodes, ops, ok]: the host nodes, the host          *)
(* operations performed so far, and ok = FALSE once a host call has thrown *)

HostOp(op, parent, node) == [op |-> op, parent |-> parent, node |-> node]

checksIfFiberHasDom(F, fiber) == fiber # undefined /\ F[fiber].dom # undefined

\* canAppendToParent without the test for the root element
canAppendToParentEvenRoot(F, fiber) ==
    /\ F[fiber].parent # undefined
    /\ F[F[fiber].parent].dom # undefined

canAppendToParent(F, fiber) ==
    /\ F[fiber].parent # undefined
    /\ F[F[fiber].parent].dom # undefined
    /\ F[fiber].element.type # ROOT_TYPE

DoAppend(st, parent, child) ==
    LET r == appendChild(st.nodes, parent, child)
    IN  [nodes |-> r.nodes, ops |-> Append(st.ops, HostOp("appendChild", parent, child)),
         ok |-> r.ok]

DoRemove(st, parent, child) ==
    LET r == removeChild(st.nodes, parent, child)
    IN  [nodes |-> r.nodes, ops |-> Append(st.ops, HostOp("removeChild", parent, child)),
         ok |-> r.ok]

\* commitUpdate with the comparison turned round: the text is written only
\* when it has not changed
commitUpdateWritesUnchanged(F, st, fiber) ==
    IF F[fiber].dom = undefined \/ F[fiber].alternate = undefined THEN st
    ELSE LET dom == F[fiber].dom
             newValue == F[fiber].element.nodeValue
             oldValue == F[F[fiber].alternate].element.nodeValue
         IN  IF isTextHTMLNode(st.nodes, dom) /\ newValue = oldValue
             THEN [st EXCEPT !.nodes[dom].nodeValue = newValue,
                             !.ops = Append(@, HostOp("nodeValue", undefined, dom))]
             ELSE st

\* Text node: writes nodeValue when it changed; element node: nothing (TODO
\* in the source)
commitUpdate(F, st, fiber) ==
    IF F[fiber].dom = undefined \/ F[fiber].alternate = undefined THEN st
    ELSE LET dom == F[fiber].dom
             newValue == F[fiber].element.nodeValue
             oldValue == F[F[fiber].alternate].element.nodeValue
         IN  IF isTextHTMLNode(st.nodes, dom) /\ newValue # oldValue
             THEN [st EXCEPT !.nodes[dom].nodeValue = newValue,
                             !.ops = Append(@, HostOp("nodeValue", undefined, dom))]
             ELSE st

\* commitPlacement that puts the host node before the children the
\* parent's host node already has
commitPlacementInsertsFirst(F, st, fiber) ==
    IF ~canAppendToParent(F, fiber) THEN st
    ELSE LET parentDom == F[F[fiber].parent].dom
         IN  [st EXCEPT !.nodes[parentDom].children = <<F[fiber].dom>> \o @,
                        !.ops = Append(@, HostOp("appendChild", parentDom, F[fiber].dom))]

\* Appends the host node to the parent's host node, then removes the
\* alternate's host node when there is a different one
commitPlacement(F, st, fiber) ==
    IF ~canAppendToParent(F, fiber) THEN st
    ELSE LET parentDom == F[F[fiber].parent].dom
             alternate == F[fiber].alternate
             s1 == DoAppend(st, parentDom, F[fiber].dom)
         IN  IF /\ s1.ok
                /\ alternate # undefined
                /\ F[alternate].dom # undefined
                /\ F[alternate].dom # F[fiber].dom
             THEN DoRemove(s1, parentDom, F[alternate].dom)
             ELSE s1

\* commitWork(fiber): the fiber's effect, then its child, then its sibling;
\* a fiber without a host node ends the recursion there
RECURSIVE commitWork(_, _, _)
commitWork(F, st, fiber) ==
    IF ~st.ok \/ ~checksIfFiberHasDom(F, fiber) THEN st
    ELSE LET s1 == IF F[fiber].effect = "UPDATE" THEN commitUpdate(F, st, fiber)
                   ELSE IF F[fiber].effect = "PLACEMENT" THEN commitPlacement(F, st, fiber)
                   ELSE st
             s2 == commitWork(F, s1, F[fiber].child)
         IN  commitWork(F, s2, F[fiber].sibling)

\* commitDeletion(fiber): the children of the fiber first, then the fiber's
\* host node is removed from the parent's host node
RECURSIVE commitDeletion(_, _, _)
commitDeletion(F, st, fiber) ==
    IF ~st.ok THEN st
    ELSE IF F[fiber].dom = undefined \/ F[fiber].parent = undefined
            \/ F[F[fiber].parent].dom = undefined
    THEN st
    ELSE LET children == ChildFibers(F, fiber)
             RECURSIVE DeleteChildren(_, _)
             DeleteChildren(s, i) ==
                 IF i > Len(children) THEN s
                 ELSE DeleteChildren(commitDeletion(F, s, children[i]), i + 1)
             s1 == DeleteChildren(st, 1)
         IN  IF s1.ok THEN DoRemove(s1, F[F[fiber].parent].dom, F[fiber].dom) ELSE s1

\* getOldFibersToDelete().forEach(commitDeletion)
RECURSIVE DeleteFrom(_, _, _, _)
DeleteFrom(F, st, D, i) ==
    IF i > Len(D) THEN st ELSE DeleteFrom(F, commitDeletion(F, st, D[i]), D, i + 1)

\* handleDeletedFibers(): clears oldFibersToDelete unless a removal threw
handleDeletedFibers(F, st, D) ==
    LET s1 == DeleteFrom(F, st, D, 1)
    IN  [nodes |-> s1.nodes, ops |-> s1.ops, ok |-> s1.ok,
         oldFibersToDelete |-> IF s1.ok THEN <<>> ELSE D]

\* commitFiberRoot as fiber/commit.ts had it before the deletions were kept
\* in oldFibersToDelete: the recorded deletions are never applied
commitFiberRootWithoutDeletions(F, N, D, last, rootFiber) ==
    LET s1 == commitWork(F, [nodes |-> N, ops |-> <<>>, ok |-> TRUE], rootFiber)
    IN  [nodes |-> s1.nodes, ops |-> s1.ops, ok |-> s1.ok, oldFibersToDelete |-> D,
         lastCommitedFiberTree |-> IF s1.ok THEN rootFiber ELSE last]

\* commitFiberRoot(rootFiber): the effects of the new tree, the deletions,
\* then the new baseline; an exception leaves the baseline as it was
commitFiberRoot(F, N, D, last, rootFiber) ==
    LET s1 == commitWork(F, [nodes |-> N, ops |-> <<>>, ok |-> TRUE], rootFiber)
        s2 == IF s1.ok THEN handleDeletedFibers(F, s1, D)
              ELSE [nodes |-> s1.nodes, ops |-> s1.ops, ok |-> FALSE,
                    oldFibersToDelete |-> D]
    IN  [nodes |-> s2.nodes, ops |-> s2.ops, ok |-> s2.ok,
         oldFibersToDelete |-> s2.oldFibersToDelete,
         lastCommitedFiberTree |-> IF s2.ok THEN rootFiber ELSE last]

-----------------------------------------------------------------------------
(* Element trees handed to render *)

Hi == createPrimitiveElement("hi")

Bye == createPrimitiveElement("bye")

\* div > span > "hi"
TreeHi == createElement("div", {}, <<createElement("span", {}, <<Hi>>)>>)

\* div > span > "bye"
TreeBye == createElement("div", {}, <<createElement("span", {}, <<Bye>>)>>)

\* div > [span > "hi", p > "bye"]
TreeTwo ==
    createElement("div", {},
        <<createElement("span", {}, <<Hi>>), createElement("p", {}, <<Bye>>)>>)

\* div > [p > "bye", span > "hi"]: TreeTwo with its children swapped
TreeSwapped ==
    createElement("div", {},
        <<createElement("p", {}, <<Bye>>), createElement("span", {}, <<Hi>>)>>)

\* div > p > "hi": TreeHi with the type of the child changed
TreePara == createElement("div", {}, <<createElement("p", {}, <<Hi>>)>>)

\* div > ["hi" > b, span]: a text element that was given a child
TreeTextParent ==
    createElement("div", {},
        <<[type |-> PRIMITIVE_ELEMENT_TYPE, nodeValue |-> "hi", attrs |-> {},
           children |-> <<createElement("b", {}, <<>>)>>],
          createElement("span", {}, <<>>)>>)

\* div > [span > "hi", span > "bye"]: two children of one type
TreeSpans ==
    createElement("div", {},
        <<createElement("span", {}, <<Hi>>), createElement("span", {}, <<Bye>>)>>)

\* div > [span > "hi", p > "bye", span > "bye"]
TreeThree ==
    createElement("div", {},
        <<createElement("span", {}, <<Hi>>), createElement("p", {}, <<Bye>>),
          createElement("span", {}, <<Bye>>)>>)

ElementTrees ==
    {TreeHi, TreeBye, TreeTwo, TreeSwapped, TreePara, TreeTextParent, TreeSpans, TreeThree}

-----------------------------------------------------------------------------
(* The program *)

Passes == 1..Len(passes)

\* the pass has an idle callback registered or running
Outstanding(p) == passes[p].status \in {"scheduled", "running"}

NoCallbackRunning == \A p \in Passes : passes[p].status # "running"

\* the element tree handed to the render call of pass p
Rendered(p) == fibers[passes[p].rootFiber].element.children[1]

Init ==
    /\ fibers = <<>>
    /\ nodes = <<ContainerNode>>
    /\ lastCommitedFiberTree = undefined
    /\ oldFibersToDelete = <<>>
    /\ passes = <<>>
    /\ hostOps = <<>>
    /\ slots = 0

\* createRootFiber({container, element})
createRootFiber(container, element, last) ==
    NewFiber([type |-> ROOT_TYPE, nodeValue |-> "", attrs |-> {}, children |-> <<element>>],
             container, undefined, last, "NONE")

\* startWorkLoop(rootFiber): the closure's currentFiber and the first
\* requestIdleCallback(workLoop)
startWorkLoop(rootFiber) ==
    [rootFiber |-> rootFiber, currentFiber |-> rootFiber, status |-> "scheduled",
     pending |-> 1, visited |-> <<>>, skipped |-> <<>>]

\* render(container, element): createRootFiber, then startWorkLoop. It runs
\* between callbacks, as any caller on the single JavaScript thread does
Render(element) ==
    /\ Len(passes) < MaxRenders
    /\ NoCallbackRunning
    /\ fibers' = Append(fibers, createRootFiber(Container, element, lastCommitedFiberTree))
    /\ passes' = Append(passes, startWorkLoop(Len(fibers) + 1))
    /\ slots' = 0
    /\ UNCHANGED <<nodes, lastCommitedFiberTree, oldFibersToDelete, hostOps>>

\* a caller that waits for the commit of a pass before it renders again
RenderAfterCommit(element) ==
    /\ \A p \in Passes : ~Outstanding(p)
    /\ Render(element)

\* the callback of a work loop that reads the deadline before its first unit
\* of work: with no time left it registers itself again at once
IdleCallbackChecksBudgetFirst(p) ==
    /\ passes[p].status = "scheduled"
    /\ NoCallbackRunning
    /\ \E shouldYield \in BOOLEAN :
           passes' = [passes EXCEPT ![p].status = IF shouldYield THEN "scheduled"
                                                 ELSE "running",
                                    ![p].pending = IF shouldYield THEN @ ELSE @ - 1]
    /\ slots' = slots + 1
    /\ UNCHANGED <<fibers, nodes, lastCommitedFiberTree, oldFibersToDelete, hostOps>>

\* the host delivers the idle callback of pass p: workLoop(deadline) begins
IdleCallback(p) ==
    /\ passes[p].status = "scheduled"
    /\ NoCallbackRunning
    /\ passes' = [passes EXCEPT ![p].status = "running", ![p].pending = @ - 1]
    /\ slots' = slots + 1
    /\ UNCHANGED <<fibers, nodes, lastCommitedFiberTree, oldFibersToDelete, hostOps>>

\* workLoopIteration with the mistake of ending the walk at the first yield:
\* the fiber reached is forgotten, so the callback goes on to commit
workLoopIterationForgetsFiber(pass, r, shouldYield) ==
    [pass EXCEPT
        !.currentFiber = IF shouldYield THEN undefined ELSE r.next,
        !.visited = IF r.result = "done" THEN Append(@, pass.currentFiber) ELSE @,
        !.skipped = IF r.result = "skipped" THEN Append(@, pass.currentFiber) ELSE @,
        !.status = "running"]

\* workLoopIteration without the requestIdleCallback(workLoop) that ends the
\* callback: a loop that yields is never called again
workLoopIterationWithoutReschedule(pass, r, shouldYield) ==
    [pass EXCEPT
        !.currentFiber = r.next,
        !.visited = IF r.result = "done" THEN Append(@, pass.currentFiber) ELSE @,
        !.skipped = IF r.result = "skipped" THEN Append(@, pass.currentFiber) ELSE @,
        !.status = IF r.next # undefined /\ shouldYield THEN "yielded" ELSE "running"]

\* workLoopIteration that keeps the fiber it was given when the loop yields:
\* the next callback works on the same fiber again
workLoopIterationResumesAtSameFiber(pass, r, shouldYield) ==
    [pass EXCEPT
        !.currentFiber = IF r.next # undefined /\ shouldYield THEN pass.currentFiber
                         ELSE r.next,
        !.visited = IF r.result = "done" THEN Append(@, pass.currentFiber) ELSE @,
        !.skipped = IF r.result = "skipped" THEN Append(@, pass.currentFiber) ELSE @,
        !.status = IF r.next # undefined /\ shouldYield THEN "scheduled" ELSE "running",
        !.pending = IF r.next # undefined /\ shouldYield THEN @ + 1 ELSE @]

\* workLoopIteration that registers workLoop again after every unit of
\* work, whether the loop goes on or not
workLoopIterationAlwaysRegisters(pass, r, shouldYield) ==
    [pass EXCEPT
        !.currentFiber = r.next,
        !.visited = IF r.result = "done" THEN Append(@, pass.currentFiber) ELSE @,
        !.skipped = IF r.result = "skipped" THEN Append(@, pass.currentFiber) ELSE @,
        !.status = IF r.next # undefined /\ shouldYield THEN "scheduled" ELSE "running",
        !.pending = @ + 1]

\* The closure after one iteration of the while loop: currentFiber is the
\* fiber performUnitOfWork returned; when there is one and the deadline has
\* expired the loop ends and workLoop is registered again
workLoopIteration(pass, r, shouldYield) ==
    [pass EXCEPT
        !.currentFiber = r.next,
        !.visited = IF r.result = "done" THEN Append(@, pass.currentFiber) ELSE @,
        !.skipped = IF r.result = "skipped" THEN Append(@, pass.currentFiber) ELSE @,
        !.status = IF r.next # undefined /\ shouldYield THEN "scheduled" ELSE "running",
        !.pending = IF r.next # undefined /\ shouldYield THEN @ + 1 ELSE @]

\* one iteration of the while loop of workLoop: a unit of work, then
\* shouldYield = deadline.timeRemaining() < 1; an exception ends the callback
PerformWork(p) ==
    /\ passes[p].status = "running"
    /\ passes[p].currentFiber # undefined
    /\ LET r == performUnitOfWork(fibers, nodes, oldFibersToDelete, passes[p].currentFiber)
       IN  IF r.result = "threw"
           THEN /\ passes' = [passes EXCEPT ![p].status = "threw"]
                /\ UNCHANGED <<fibers, nodes, oldFibersToDelete>>
           ELSE /\ fibers' = r.fibers
                /\ nodes' = r.nodes
                /\ oldFibersToDelete' = r.oldFibersToDelete
                /\ \E shouldYield \in BOOLEAN :
                       passes' = [passes EXCEPT ![p] = workLoopIteration(@, r, shouldYield)]
    /\ UNCHANGED <<lastCommitedFiberTree, hostOps, slots>>

\* Commit without the return that follows commitFiberRoot: the callback goes
\* on to requestIdleCallback(workLoop), and the next callback commits again
CommitWithoutReturn(p) ==
    /\ passes[p].status = "running"
    /\ passes[p].currentFiber = undefined
    /\ LET c == commitFiberRoot(fibers, nodes, oldFibersToDelete, lastCommitedFiberTree,
                                passes[p].rootFiber)
       IN  /\ nodes' = c.nodes
           /\ oldFibersToDelete' = c.oldFibersToDelete
           /\ lastCommitedFiberTree' = c.lastCommitedFiberTree
           /\ hostOps' = c.ops
           /\ passes' = [passes EXCEPT ![p].status = IF c.ok THEN "scheduled" ELSE "threw",
                                        ![p].pending = IF c.ok THEN @ + 1 ELSE @]
    /\ UNCHANGED <<fibers, slots>>

\* the loop has ended with currentFiber undefined: commitFiberRoot(rootFiber)
Commit(p) ==
    /\ passes[p].status = "running"
    /\ passes[p].currentFiber = undefined
    /\ LET c == commitFiberRoot(fibers, nodes, oldFibersToDelete, lastCommitedFiberTree,
                                passes[p].rootFiber)
       IN  /\ nodes' = c.nodes
           /\ oldFibersToDelete' = c.oldFibersToDelete
           /\ lastCommitedFiberTree' = c.lastCommitedFiberTree
           /\ hostOps' = c.ops
           /\ passes' = [passes EXCEPT ![p].status = IF c.ok THEN "committed" ELSE "threw"]
    /\ UNCHANGED <<fibers, slots>>

Next ==
    \/ \E element \in ElementTrees : RenderAfterCommit(element)
    \/ \E p \in Passes : IdleCallback(p)
    \/ \E p \in Passes : PerformWork(p)
    \/ \E p \in Passes : Commit(p)

Spec == Init /\ [][Next]_vars

\* what a PerformWork(p) step does to the closure of pass p, whatever the
\* unit of work returned: an existing fiber, the first new child, or undefined
UnitEnds(p) ==
    /\ passes[p].status = "running"
    /\ passes[p].currentFiber # undefined
    /\ \E next \in 0..(Len(fibers) + 1), result \in {"done", "skipped", "threw"},
          shouldYield \in BOOLEAN :
           passes' = [passes EXCEPT ![p] =
                         IF result = "threw" THEN [@ EXCEPT !.status = "threw"]
                         ELSE workLoopIteration(@, [next |-> next, result |-> result],
                                                shouldYield)]

\* what a Commit(p) step does to the closure of pass p: the callback ends,
\* with the commit done or with the exception a host call threw
CallbackEnds(p) ==
    /\ passes[p].status = "running"
    /\ passes[p].currentFiber = undefined
    /\ \E status \in {"committed", "threw"} :
           passes' = [passes EXCEPT ![p].status = status]

\* The host delivers every registered idle callback, and a callback that has
\* begun runs to its end: JavaScript runs a callback to completion. The
\* fairness of the steps of a running callback is stated on its closure: the
\* steps of Next that are UnitEnds (CallbackEnds) steps are the PerformWork
\* (Commit) steps, and UnitEnds(p) (CallbackEnds(p)) is enabled exactly when
\* PerformWork(p) (Commit(p)) is
SpecFair ==
    /\ Spec
    /\ WF_vars(\E p \in Passes : IdleCallback(p))
    /\ WF_passes(\E p \in Passes : UnitEnds(p))
    /\ WF_passes(\E p \in Passes : CallbackEnds(p))

\* a caller that renders again whenever it likes, as an event handler does
RenderAnyTime(element) ==
    /\ Len(passes) < MaxOverlappingRenders
    /\ Render(element)

OverlapTrees == {TreeHi, TreeBye, TreeTwo}

NextOverlap ==
    \/ \E element \in OverlapTrees : RenderAnyTime(element)
    \/ \E p \in Passes : IdleCallback(p)
    \/ \E p \in Passes : PerformWork(p)
    \/ \E p \in Passes : Commit(p)

SpecOverlap == Init /\ [][NextOverlap]_vars

-----------------------------------------------------------------------------
(* Two containers: render(container, element) into either of them *)

SecondContainer == 2

InitTwoContainers ==
    /\ fibers = <<>>
    /\ nodes = <<ContainerNode, ContainerNode>>
    /\ lastCommitedFiberTree = undefined
    /\ oldFibersToDelete = <<>>
    /\ passes = <<>>
    /\ hostOps = <<>>
    /\ slots = 0

\* render(container, element) by a caller that waits for the commit of a
\* pass before it renders again
RenderInto(container, element) ==
    /\ Len(passes) < MaxRenders
    /\ \A p \in Passes : ~Outstanding(p)
    /\ fibers' = Append(fibers, createRootFiber(container, element, lastCommitedFiberTree))
    /\ passes' = Append(passes, startWorkLoop(Len(fibers) + 1))
    /\ slots' = 0
    /\ UNCHANGED <<nodes, lastCommitedFiberTree, oldFibersToDelete, hostOps>>

ContainerTrees == {TreeHi, TreeBye, TreePara}

NextTwoContainers ==
    \/ \E container \in {Container, SecondContainer} :
           \E element \in ContainerTrees : RenderInto(container, element)
    \/ \E p \in Passes : IdleCallback(p)
    \/ \E p \in Passes : PerformWork(p)
    \/ \E p \in Passes : Commit(p)

SpecTwoContainers == InitTwoContainers /\ [][NextTwoContainers]_vars

-----------------------------------------------------------------------------
(* startWorkLoop called with fibers that createRootFiber does not build:   *)
(* the malformed fiber trees performUnitOfWork throws for                  *)

\* an element that is not the root element
Orphan == createElement("div", {}, <<>>)

MalformedKinds == {"noParent", "parentWithoutDom", "orphanSibling"}

\* The fibers of a malformed tree and the one startWorkLoop is given (start,
\* counted from the first of them):
\*   noParent          a fiber of a non-root element that has no parent
\*   parentWithoutDom  a fiber whose parent has no host node
\*   orphanSibling     a root fiber as createRootFiber builds it, with a
\*                     sibling that has no parent: the walk reaches it last
MalformedFibers(kind, element, base, last) ==
    IF kind = "noParent"
    THEN [fibers |-> <<NewFiber(element, undefined, undefined, undefined, "NONE")>>,
          start |-> 1]
    ELSE IF kind = "parentWithoutDom"
    THEN [fibers |-> <<NewFiber(Orphan, undefined, undefined, undefined, "NONE"),
                       NewFiber(element, undefined, base + 1, undefined, "NONE")>>,
          start |-> 2]
    ELSE [fibers |-> <<[createRootFiber(Container, element, last)
                           EXCEPT !.sibling = base + 2],
                       NewFiber(Orphan, undefined, undefined, undefined, "NONE")>>,
          start |-> 1]

\* startWorkLoop(fiber) on a malformed tree, by a caller that waits for the
\* work loops begun before
StartMalformed(kind, element) ==
    /\ Len(passes) < MaxRenders
    /\ \A p \in Passes : ~Outstanding(p)
    /\ LET m == MalformedFibers(kind, element, Len(fibers), lastCommitedFiberTree)
       IN  /\ fibers' = fibers \o m.fibers
           /\ passes' = Append(passes, startWorkLoop(Len(fibers) + m.start))
    /\ slots' = 0
    /\ UNCHANGED <<nodes, lastCommitedFiberTree, oldFibersToDelete, hostOps>>

MalformedTrees == {TreeHi, TreeTwo}

NextMalformed ==
    \/ \E element \in MalformedTrees : RenderAfterCommit(element)
    \/ \E kind \in MalformedKinds : \E element \in MalformedTrees :
           StartMalformed(kind, element)
    \/ \E p \in Passes : IdleCallback(p)
    \/ \E p \in Passes : PerformWork(p)
    \/ \E p \in Passes : Commit(p)

SpecMalformed == Init /\ [][NextMalformed]_vars

-----------------------------------------------------------------------------
(* The same renders with a work loop that never yields: every pass walks   *)
(* its whole tree and commits within its first idle callback               *)

\* the while loop of workLoop with shouldYield always false
RECURSIVE WalkWithoutYield(_, _)
WalkWithoutYield(w, currentFiber) ==
    IF currentFiber = undefined THEN w
    ELSE LET r == performUnitOfWork(w.fibers, w.nodes, w.oldFibersToDelete, currentFiber)
         IN  IF r.result = "threw" THEN [w EXCEPT !.threw = TRUE]
             ELSE WalkWithoutYield(
                      [w EXCEPT !.fibers = r.fibers, !.nodes = r.nodes,
                                !.oldFibersToDelete = r.oldFibersToDelete],
                      r.next)

\* render(container, element) run to the end of its only callback
RenderWithoutYield(w, element) ==
    LET rootFiber == Len(w.fibers) + 1
        w1 == [w EXCEPT !.fibers = Append(@, createRootFiber(Container, element,
                                                             w.lastCommitedFiberTree)),
                        !.threw = FALSE]
        w2 == WalkWithoutYield(w1, rootFiber)
        c == commitFiberRoot(w2.fibers, w2.nodes, w2.oldFibersToDelete,
                             w2.lastCommitedFiberTree, rootFiber)
    IN  IF w2.threw THEN w2
        ELSE [fibers |-> w2.fibers, nodes |-> c.nodes,
              oldFibersToDelete |-> c.oldFibersToDelete,
              lastCommitedFiberTree |-> c.lastCommitedFiberTree, threw |-> ~c.ok]

\* the renders of the first n passes, one after the other, never yielding
RECURSIVE RendersWithoutYield(_)
RendersWithoutYield(n) ==
    IF n = 0
    THEN [fibers |-> <<>>, nodes |-> <<ContainerNode>>, oldFibersToDelete |-> <<>>,
          lastCommitedFiberTree |-> undefined, threw |-> FALSE]
    ELSE RenderWithoutYield(RendersWithoutYield(n - 1), Rendered(n))

Quiescent == \A p \in Passes : ~Outstanding(p)

LastPass == Len(passes)

\* C1: whatever the yield schedule, once the passes rendered so far have
\* committed (each before the next began) the host tree under the container
\* is the host tree the same renders give when the work loop never yields
YieldScheduleIndependent ==
    Quiescent =>
        Shape(nodes, Container) = Shape(RendersWithoutYield(LastPass).nodes, Container)

\* C1 witness: the second or a later pass has committed after a walk in which
\* the deadline expired after every unit of work, one idle slot per fiber
CommittedAfterYieldingEveryUnit ==
    /\ LastPass >= 2
    /\ passes[LastPass].status = "committed"
    /\ Len(passes[LastPass].visited) >= 4
    /\ slots = Len(passes[LastPass].visited)

-----------------------------------------------------------------------------

\* the type an element must have had to give host node n
NodeType(N, n) == IF isTextHTMLNode(N, n) THEN PRIMITIVE_ELEMENT_TYPE ELSE N[n].tag

\* host node n and the host tree below it correspond to the element tree:
\* one host child per element child, of the same type, in the same order
RECURSIVE Corresponds(_, _, _)
Corresponds(N, n, element) ==
    /\ NodeType(N, n) = element.type
    /\ Len(N[n].children) = Len(element.children)
    /\ \A i \in 1..Len(element.children) :
           Corresponds(N, N[n].children[i], element.children[i])

AllWellFormed == \A p \in Passes : WellFormed(Rendered(p))

\* C2: after the commit of a pass of a sequence of non-overlapping renders
\* (of trees built by createElement), the host tree under the container
\* corresponds to the last rendered element tree, child for child and in order
HostTreeCorrespondsToLastRender ==
    (/\ LastPass >= 1
     /\ passes[LastPass].status = "committed"
     /\ AllWellFormed)
    => /\ Len(nodes[Container].children) = 1
       /\ Corresponds(nodes, nodes[Container].children[1], Rendered(LastPass))

\* C3: while a pass that has begun its walk is outstanding, nothing happens
\* to any other pass: no unit of work, no idle callback, no commit
PassesNeverInterleave ==
    [][\A p \in Passes :
          (Outstanding(p) /\ passes[p].visited # <<>>)
          => \A q \in Passes \ {p} : passes'[q] = passes[q]]_vars

-----------------------------------------------------------------------------
(* The latest pass against the render before it *)

\* the latest pass was rendered on top of the commit of the pass before it
RenderedAfterCommit ==
    /\ LastPass >= 2
    /\ passes[LastPass - 1].status = "committed"
    /\ fibers[passes[LastPass].rootFiber].alternate = passes[LastPass - 1].rootFiber

\* ... and has committed as well
SecondRenderCommitted ==
    /\ RenderedAfterCommit
    /\ passes[LastPass].status = "committed"

NewTree == FiberTree(fibers, passes[LastPass].rootFiber)

InHostTree(n) == n # undefined /\ n \in Attached(nodes, Container)

TypesOf(fs) == {fibers[fs[i]].element.type : i \in 1..Len(fs)}

\* a deletion fiber was recorded for old fiber o under the new parent f
DeletionRecorded(f, o) ==
    \E d \in 1..Len(fibers) :
        /\ fibers[d].effect = "DELETION"
        /\ fibers[d].parent = f
        /\ fibers[d].dom = fibers[o].dom
        /\ fibers[d].element = fibers[o].element

\* position i under new fiber f holds a child in both renders, of two types
TypeChangedAt(f, i) ==
    /\ fibers[f].alternate # undefined
    /\ i <= Len(ChildFibers(fibers, f))
    /\ i <= Len(OldChildFibers(fibers, f))
    /\ fibers[ChildFibers(fibers, f)[i]].element.type
           # fibers[OldChildFibers(fibers, f)[i]].element.type

\* the new child is PLACEMENT, the old fiber of the position is recorded for
\* deletion, and after the commit the old host node is gone and the new one
\* is in the host tree
ReplacedAt(f, i) ==
    LET new == ChildFibers(fibers, f)[i]
        old == OldChildFibers(fibers, f)[i]
    IN  /\ fibers[new].effect = "PLACEMENT"
        /\ DeletionRecorded(f, old)
        /\ ~InHostTree(fibers[old].dom)
        /\ InHostTree(fibers[new].dom)

\* the type change is not a move: no previous sibling has the new type and
\* no new sibling has the old type
TypeIsNewAt(f, i) ==
    /\ fibers[ChildFibers(fibers, f)[i]].element.type
           \notin TypesOf(OldChildFibers(fibers, f))
    /\ fibers[OldChildFibers(fibers, f)[i]].element.type
           \notin TypesOf(ChildFibers(fibers, f))

\* C4 as stated: whenever the type of the child at a position changes, the
\* new child is placed and the old fiber of that position deleted
TypeChangeReplaces ==
    (SecondRenderCommitted /\ AllWellFormed) =>
        \A f \in NewTree : \A i \in 1..Len(ChildFibers(fibers, f)) :
            TypeChangedAt(f, i) => ReplacedAt(f, i)

\* C4 amended: in trees whose text elements have no children, when the type
\* of the child at a position changes to a type no previous sibling has, and
\* no new sibling has the old type, the new child
\* is PLACEMENT, the old fiber is recorded for deletion, and after the commit
\* the old host node is absent from the host tree and the new one present
NewTypeReplaces ==
    (SecondRenderCommitted /\ AllWellFormed) =>
        \A f \in NewTree : \A i \in 1..Len(ChildFibers(fibers, f)) :
            (TypeChangedAt(f, i) /\ TypeIsNewAt(f, i)) => ReplacedAt(f, i)

\* C4 witness: a committed second render changed a child's type to a new one
TypeChangeCommitted ==
    /\ SecondRenderCommitted
    /\ \E f \in NewTree : \E i \in 1..Len(ChildFibers(fibers, f)) :
           TypeChangedAt(f, i) /\ TypeIsNewAt(f, i) /\ ReplacedAt(f, i)

-----------------------------------------------------------------------------

\* the fibers below f: its children and their descendants
Descendants(F, f) == FiberTree(F, F[f].child)

\* old fiber o was claimed by a child of the new fiber f
Claimed(f, o) ==
    \E i \in 1..Len(ChildFibers(fibers, f)) :
        fibers[ChildFibers(fibers, f)[i]].alternate = o

\* the position in hostOps of the removal of host node n, 0 when there is none
RemovalOf(n) ==
    IF \E i \in 1..Len(hostOps) : hostOps[i].op = "removeChild" /\ hostOps[i].node = n
    THEN CHOOSE i \in 1..Len(hostOps) :
             hostOps[i].op = "removeChild" /\ hostOps[i].node = n
    ELSE 0

\* C5: when a second render drops a child Y of a node and keeps a child X,
\* the commit removes every descendant of Y before Y itself, Y's subtree is
\* no longer in the host tree, and X is UPDATE with its host node in place
RemovalDeletesSubtreeBottomUp ==
    (SecondRenderCommitted /\ AllWellFormed) =>
        \A f \in NewTree :
            /\ \A i \in 1..Len(OldChildFibers(fibers, f)) :
                   LET Y == OldChildFibers(fibers, f)[i]
                   IN  ~Claimed(f, Y) =>
                           /\ RemovalOf(fibers[Y].dom) > 0
                           /\ \A d \in Descendants(fibers, Y) :
                                  /\ ~InHostTree(fibers[d].dom)
                                  /\ RemovalOf(fibers[d].dom) > 0
                                  /\ RemovalOf(fibers[d].dom) < RemovalOf(fibers[Y].dom)
            /\ \A i \in 1..Len(ChildFibers(fibers, f)) :
                   LET X == ChildFibers(fibers, f)[i]
                   IN  fibers[X].alternate # undefined =>
                           /\ fibers[X].effect = "UPDATE"
                           /\ fibers[X].dom = fibers[fibers[X].alternate].dom
                           /\ fibers[X].dom \in Range(nodes[fibers[f].dom].children)

-----------------------------------------------------------------------------

\* the latest pass has committed the element tree the pass before it rendered
SameTreeRenderedAgain ==
    /\ SecondRenderCommitted
    /\ Rendered(LastPass) = Rendered(LastPass - 1)

StructuralOps == {i \in 1..Len(hostOps) : hostOps[i].op \in {"appendChild", "removeChild"}}

\* a deletion fiber recorded during the latest pass
DeletionsOfLastPass ==
    {d \in 1..Len(fibers) : fibers[d].effect = "DELETION" /\ fibers[d].parent \in NewTree}

\* C6: the commit of a pass that renders the tree of the render before it
\* leaves the shape of the host tree under the container as it was, and that
\* pass has tagged no fiber PLACEMENT and recorded no deletion
IdempotentReRender ==
    [][(/\ RenderedAfterCommit
        /\ passes[LastPass].status = "running"
        /\ passes'[LastPass].status # "running"
        /\ passes[LastPass].currentFiber = undefined
        /\ Rendered(LastPass) = Rendered(LastPass - 1))
       => /\ passes'[LastPass].status = "committed"
          /\ Shape(nodes', Container) = Shape(nodes, Container)
          /\ \A f \in NewTree : fibers[f].effect # "PLACEMENT"
          /\ DeletionsOfLastPass = {}
          /\ oldFibersToDelete = <<>>]_vars

\* C6 witness: a tree with two children has been committed twice in a row
SameTreeCommittedTwice ==
    /\ SameTreeRenderedAgain
    /\ Rendered(LastPass) = TreeTwo
    /\ StructuralOps = {}

-----------------------------------------------------------------------------

\* the two element trees differ in nothing but the values of text elements
RECURSIVE SameButText(_, _)
SameButText(a, b) ==
    /\ a.type = b.type
    /\ a.attrs = b.attrs
    /\ isPrimitiveElement(a) \/ a.nodeValue = b.nodeValue
    /\ Len(a.children) = Len(b.children)
    /\ \A i \in 1..Len(a.children) : SameButText(a.children[i], b.children[i])

OnlyTextChanged ==
    /\ SecondRenderCommitted
    /\ Rendered(LastPass) # Rendered(LastPass - 1)
    /\ SameButText(Rendered(LastPass), Rendered(LastPass - 1))

\* host node n existed before the latest pass began: a fiber older than the
\* root fiber of the pass refers to it
OlderThanLastPass(n) ==
    \/ n = Container
    \/ \E g \in 1..(passes[LastPass].rootFiber - 1) : fibers[g].dom = n

\* C7: after the commit of a render that differs from the one before only in
\* text values, every fiber the reconciler made is UPDATE and has the host
\* node of its alternate, no host node was created, attached or removed, and
\* every text host node of the tree holds the value of its new element
TextChangeReusesHostNodes ==
    OnlyTextChanged =>
        /\ \A f \in NewTree \ {passes[LastPass].rootFiber} :
               /\ fibers[f].effect = "UPDATE"
               /\ fibers[f].alternate # undefined
               /\ fibers[f].dom # undefined
               /\ fibers[f].dom = fibers[fibers[f].alternate].dom
               /\ isPrimitiveElement(fibers[f].element) =>
                      nodes[fibers[f].dom].nodeValue = fibers[f].element.nodeValue
        /\ \A n \in 1..Len(nodes) : OlderThanLastPass(n)
        /\ StructuralOps = {}

\* C7 witness: "hi" has become "bye" in a committed second render and the
\* commit wrote the text node
TextChangeCommitted ==
    /\ OnlyTextChanged
    /\ Rendered(LastPass) = TreeBye
    /\ \E i \in 1..Len(hostOps) : hostOps[i].op = "nodeValue"

-----------------------------------------------------------------------------

NoDuplicates(seq) == \A i, j \in 1..Len(seq) : seq[i] = seq[j] => i = j

\* pass p is about to commit or has committed
WalkOver(p) ==
    \/ passes[p].status = "committed"
    \/ passes[p].status = "running" /\ passes[p].currentFiber = undefined

\* the fibers performUnitOfWork was called on, in order of completion
\* (those it skipped for their Text parent last)
Worked(p) == passes[p].visited \o passes[p].skipped

\* C8: before a pass commits, the work loop has performed a unit of work on
\* exactly N fibers besides the root fiber, N the number of element nodes of
\* the tree given to render, and on none twice
EveryElementVisitedOnce ==
    \A p \in Passes :
        WalkOver(p) =>
            /\ NoDuplicates(Worked(p))
            /\ Len(Worked(p)) = ElementCount(Rendered(p)) + 1

\* C9: at the moment commitFiberRoot is invoked, every fiber reachable from
\* the root fiber through child and sibling links has had its unit of work
CommitOnlyAfterWholeWalk ==
    \A p \in Passes :
        (passes[p].status = "running" /\ passes[p].currentFiber = undefined) =>
            FiberTree(fibers, passes[p].rootFiber) \subseteq Range(Worked(p))

\* C10: when a pass met a fiber whose parent's host node is a Text node, only
\* the subtree of that fiber is dropped: every other fiber of the tree has
\* been visited, and after the commit its host node is in the host tree
TextParentSkipsOnlySubtree ==
    \A p \in Passes :
        (passes[p].status = "committed" /\ passes[p].skipped # <<>>) =>
            \A f \in FiberTree(fibers, passes[p].rootFiber) :
                (\A k \in 1..Len(passes[p].skipped) :
                     f \notin {passes[p].skipped[k]}
                              \cup Descendants(fibers, passes[p].skipped[k]))
                => /\ f \in Range(passes[p].visited)
                   /\ p = LastPass => InHostTree(fibers[f].dom)

-----------------------------------------------------------------------------

\* the step is the end of a work loop: commitFiberRoot runs (or throws)
CommitStep ==
    \E p \in Passes :
        /\ passes[p].status = "running"
        /\ passes[p].currentFiber = undefined
        /\ passes'[p].status \in {"committed", "threw"}

\* the host nodes the step has created
CreatedByStep == (Len(nodes) + 1)..Len(nodes')

\* C11: a step that is not a commit (a render call, an idle callback, a unit
\* of work) changes no host node that exists, so the host tree under the
\* container is as it was, and the host nodes it creates are detached: they
\* have no parent and no children
WalkLeavesHostTreeUntouched ==
    [][~CommitStep =>
          /\ Len(nodes') >= Len(nodes)
          /\ \A n \in 1..Len(nodes) : nodes'[n] = nodes[n]
          /\ Shape(nodes', Container) = Shape(nodes, Container)
          /\ \A n \in CreatedByStep :
                 /\ nodes'[n].children = <<>>
                 /\ HostParent(nodes', n) = undefined]_vars

\* C11 witness: a second pass has yielded in the middle of its walk, it has
\* created a host node, and that node is not in the host tree
WalkCreatedDetachedNode ==
    /\ RenderedAfterCommit
    /\ passes[LastPass].status = "scheduled"
    /\ Len(passes[LastPass].visited) >= 3
    /\ nodes[Container].children # <<>>
    /\ \E f \in NewTree :
           /\ fibers[f].effect = "PLACEMENT"
           /\ fibers[f].dom # undefined
           /\ ~OlderThanLastPass(fibers[f].dom)
           /\ ~InHostTree(fibers[f].dom)

-----------------------------------------------------------------------------

\* the work loop of pass p has ended: it committed, or an exception ended it
Stopped(p) == passes[p].status \in {"committed", "threw"}

\* C12: a work loop commits in the callback in which the traversal returned
\* undefined and nowhere else, registers no callback once the traversal has
\* returned undefined, and after its commit nothing happens to it any more:
\* no idle callback, no unit of work, no second commit
WorkLoopCommitsOnceAndStops ==
    [][\A p \in Passes :
          /\ Stopped(p) => passes'[p] = passes[p]
          /\ (passes[p].status = "running" /\ passes[p].currentFiber = undefined)
                 => Stopped(p)'
          /\ passes'[p].status = "scheduled" => passes'[p].currentFiber # undefined
          /\ (~Stopped(p) /\ passes'[p].status = "committed")
                 => /\ passes[p].status = "running"
                    /\ passes[p].currentFiber = undefined
                    /\ lastCommitedFiberTree' = passes[p].rootFiber]_vars

\* C12 witness: the first pass has committed after a walk over several idle
\* callbacks, and a later pass is in the middle of its walk
LaterPassWalksAfterCommit ==
    /\ LastPass >= 2
    /\ passes[1].status = "committed"
    /\ Len(passes[1].visited) >= 4
    /\ passes[LastPass].status = "running"
    /\ passes[LastPass].visited # <<>>
    /\ passes[LastPass].currentFiber # undefined

-----------------------------------------------------------------------------

\* no exception has ended a work loop
NoPassThrew == \A p \in Passes : passes[p].status # "threw"

\* C13: when the host delivers the idle callbacks, every pass that was begun
\* reaches its commit, whatever the deadlines of the callbacks; and when the
\* trees rendered so far are trees whose text elements have no children, the
\* commit completes
EveryPassReachesCommit ==
    \A p \in 1..MaxRenders :
        (p \in Passes) ~>
            (/\ p \in Passes
             /\ Stopped(p)
             /\ AllWellFormed => passes[p].status = "committed")

\* C13 witness: a pass over the tree with two children has committed after
\* a walk in which the deadline expired after every unit of work
CommittedAfterSixSlots ==
    /\ LastPass >= 1
    /\ passes[LastPass].status = "committed"
    /\ Rendered(LastPass) = TreeTwo
    /\ slots = 6

-----------------------------------------------------------------------------

\* the pass whose work loop invokes commitFiberRoot in this step
CommittingPass ==
    CHOOSE p \in Passes :
        /\ passes[p].status = "running"
        /\ passes[p].currentFiber = undefined
        /\ passes'[p].status \in {"committed", "threw"}

\* C14: every commit ends with the last committed tree set to the root fiber
\* of its pass and with no pending deletion, and the last committed tree is
\* written by nothing but a commit
CommitWritesBaselineAndClearsDeletions ==
    [][/\ CommitStep =>
              /\ lastCommitedFiberTree' = passes[CommittingPass].rootFiber
              /\ oldFibersToDelete' = <<>>
       /\ lastCommitedFiberTree' # lastCommitedFiberTree => CommitStep]_vars

-----------------------------------------------------------------------------

\* the container pass p renders into
ContainerOf(p) == fibers[passes[p].rootFiber].dom

\* the passes before p that committed into container c
CommittedInto(c, p) ==
    {q \in 1..(p - 1) : passes[q].status = "committed" /\ ContainerOf(q) = c}

\* the root fiber of the last commit into c before pass p, if any
ContainerBaseline(c, p) ==
    IF CommittedInto(c, p) = {} THEN undefined
    ELSE passes[CHOOSE q \in CommittedInto(c, p) :
                    \A o \in CommittedInto(c, p) : o <= q].rootFiber

\* C15: the alternate of the root fiber of a pass is the root fiber of the
\* last commit into the same container, none on the container's first
\* render, and every fiber of the pass that has an alternate or a host node
\* taken from a previous render has it from a tree of the same container
RootAlternateIsOfSameContainer ==
    \A p \in Passes :
        /\ fibers[passes[p].rootFiber].alternate = ContainerBaseline(ContainerOf(p), p)
        /\ \A f \in FiberTree(fibers, passes[p].rootFiber) :
               fibers[f].alternate # undefined =>
                   \E q \in CommittedInto(ContainerOf(p), p) :
                       fibers[f].alternate \in FiberTree(fibers, passes[q].rootFiber)

-----------------------------------------------------------------------------

\* performUnitOfWork threw in the walk of pass p: currentFiber is the fiber
\* it threw for
AbortedInWalk(p) == passes[p].status = "threw" /\ passes[p].currentFiber # undefined

\* a deletion fiber that pass p recorded before it was aborted
PendingOfAborted(d) ==
    \E p \in Passes :
        /\ AbortedInWalk(p)
        /\ fibers[d].parent \in FiberTree(fibers, passes[p].rootFiber)

\* C16: the step in which performUnitOfWork throws changes neither the host
\* nodes nor the last committed tree; the aborted pass never commits and is
\* never scheduled again; and no host node is removed on account of the
\* aborted pass: no later commit applies a deletion that pass had recorded
FatalErrorAbortsPass ==
    [][/\ \A p \in Passes :
              /\ (~AbortedInWalk(p) /\ AbortedInWalk(p)') =>
                     /\ nodes' = nodes
                     /\ hostOps' = hostOps
                     /\ lastCommitedFiberTree' = lastCommitedFiberTree
              /\ AbortedInWalk(p) => passes'[p] = passes[p]
       /\ CommitStep =>
              \A i \in 1..Len(oldFibersToDelete) :
                  LET d == oldFibersToDelete[i]
                  IN  PendingOfAborted(d) =>
                          \A k \in 1..Len(hostOps') :
                              hostOps'[k] # HostOp("removeChild",
                                                  fibers[fibers[d].parent].dom,
                                                  fibers[d].dom)]_vars

-----------------------------------------------------------------------------
(* The reconciler, seen from the fibers it has left behind *)

\* the fibers performUnitOfWork has reconciled the children of
Reconciled == UNION {Range(passes[p].visited) : p \in Passes}

\* the previous-render fibers claimed by the new children of f before child i
ClaimedBefore(f, i) ==
    {fibers[ChildFibers(fibers, f)[j]].alternate : j \in 1..(i - 1)} \ {undefined}

\* the first previous-render child of f, in sibling order, that has the type
\* of the new child i and that no earlier new child has claimed
FirstUnclaimed(f, i) ==
    LET type == fibers[ChildFibers(fibers, f)[i]].element.type
        free == SelectSeq(OldChildFibers(fibers, f),
                          LAMBDA o : /\ fibers[o].element.type = type
                                     /\ o \notin ClaimedBefore(f, i))
    IN  IF free = <<>> THEN undefined ELSE Head(free)

\* C17: each new child of a reconciled fiber is paired with the first
\* previous-render child of its type that no earlier new child has claimed,
\* and with none when there is no such fiber; no previous fiber is claimed by
\* two new children, and the two fibers of a pair have the same type
FirstMatchByType ==
    \A f \in Reconciled :
        LET new == ChildFibers(fibers, f)
        IN  /\ \A i \in 1..Len(new) : fibers[new[i]].alternate = FirstUnclaimed(f, i)
            /\ \A i, j \in 1..Len(new) :
                   (fibers[new[i]].alternate # undefined
                    /\ fibers[new[i]].alternate = fibers[new[j]].alternate) => i = j
            /\ \A i \in 1..Len(new) :
                   fibers[new[i]].alternate # undefined =>
                       fibers[fibers[new[i]].alternate].element.type
                           = fibers[new[i]].element.type

\* C17 witness: with previous children span, p, span and new children span,
\* span, the second new child has claimed the third previous child
SecondSpanClaimsThird ==
    \E f \in Reconciled :
        LET new == ChildFibers(fibers, f)
            old == OldChildFibers(fibers, f)
        IN  /\ Len(new) = 2
            /\ Len(old) = 3
            /\ fibers[new[1]].alternate = old[1]
            /\ fibers[new[2]].alternate = old[3]
            /\ fibers[old[2]].element.type # fibers[new[2]].element.type

-----------------------------------------------------------------------------

\* the fibers createChildFiber has made: those with a parent, the deletion
\* fibers apart
MadeByCreateChildFiber ==
    {f \in 1..Len(fibers) : fibers[f].parent # undefined /\ fibers[f].effect # "DELETION"}

\* UPDATE, with an alternate of the same type whose host node f carries: f
\* has the dom of its alternate (when the alternate has none, until the unit
\* of work of f creates one)
UpdateOfAlternate(f) ==
    /\ fibers[f].effect = "UPDATE"
    /\ fibers[f].alternate # undefined
    /\ fibers[fibers[f].alternate].element.type = fibers[f].element.type
    /\ (fibers[fibers[f].alternate].dom # undefined \/ f \notin Reconciled)
           => fibers[f].dom = fibers[fibers[f].alternate].dom

\* PLACEMENT, with no alternate, and no host node until its unit of work
PlacementOfNew(f) ==
    /\ fibers[f].effect = "PLACEMENT"
    /\ fibers[f].alternate = undefined
    /\ f \notin Reconciled => fibers[f].dom = undefined

\* C18: every child fiber the reconciler has made is UPDATE with an
\* alternate of its type whose host node it carries, or PLACEMENT with no
\* alternate and, as long as its unit of work has not run, no host node
ChildFiberIsUpdateOrPlacement ==
    \A f \in MadeByCreateChildFiber : UpdateOfAlternate(f) \/ PlacementOfNew(f)

\* C18 witness: the reconciler has just made the children of a fiber, one
\* UPDATE that carries the host node of its alternate and one PLACEMENT
\* without a host node
UpdateAndPlacementJustMade ==
    \E f \in Reconciled :
        LET new == ChildFibers(fibers, f)
        IN  /\ Len(new) = 2
            /\ new[1] \notin Reconciled
            /\ UpdateOfAlternate(new[1])
            /\ fibers[new[1]].dom # undefined
            /\ PlacementOfNew(new[2])
            /\ fibers[new[2]].dom = undefined

-----------------------------------------------------------------------------

\* the deletion fibers recorded under f for the previous-render fiber o
DeletionRecords(f, o) ==
    {d \in 1..Len(fibers) : /\ fibers[d].effect = "DELETION"
                            /\ fibers[d].parent = f
                            /\ fibers[d].element = fibers[o].element
                            /\ fibers[d].dom = fibers[o].dom}

\* the number of times d is in the pending-deletion list
TimesPending(d) == Cardinality({i \in 1..Len(oldFibersToDelete) : oldFibersToDelete[i] = d})

\* the pass that made fiber f
PassOf(f) == CHOOSE p \in Passes : f \in FiberTree(fibers, passes[p].rootFiber)

\* everything C19 says but for the subtree the record carries
UnclaimedAreRecordedOnce ==
    \A f \in Reconciled :
        \A i \in 1..Len(OldChildFibers(fibers, f)) :
            LET o == OldChildFibers(fibers, f)[i]
            IN  IF Claimed(f, o) THEN DeletionRecords(f, o) = {}
                ELSE /\ Cardinality(DeletionRecords(f, o)) = 1
                     /\ \A d \in DeletionRecords(f, o) :
                            /\ d \notin FiberTree(fibers, passes[PassOf(f)].rootFiber)
                            /\ Outstanding(PassOf(f)) => TimesPending(d) = 1

\* C19: after the reconciliation of f, every previous-render child of f that
\* no new child claimed has exactly one deletion fiber, pending once until
\* the commit, not linked into the new tree, with the host node and the
\* child fibers (the previous subtree) of the old fiber; a claimed child
\* has none
UnclaimedAreRecordedWithSubtree ==
    /\ UnclaimedAreRecordedOnce
    /\ \A f \in Reconciled :
           \A i \in 1..Len(OldChildFibers(fibers, f)) :
               LET o == OldChildFibers(fibers, f)[i]
               IN  \A d \in DeletionRecords(f, o) : fibers[d].child = fibers[o].child

-----------------------------------------------------------------------------

\* C20: the child/sibling chain of a reconciled fiber f has one fiber per
\* child element of f, in the order of the elements, each with f as parent
\* and no fiber twice; the chain ends after the last of them, and f has no
\* child when its element has no children
ChainFollowsNewChildren ==
    \A f \in Reconciled :
        LET new == ChildFibers(fibers, f)
            children == fibers[f].element.children
        IN  /\ Len(new) = Len(children)
            /\ NoDuplicates(new)
            /\ \A i \in 1..Len(new) :
                   /\ fibers[new[i]].element = children[i]
                   /\ fibers[new[i]].parent = f
                   /\ fibers[new[i]].effect # "DELETION"
                   /\ fibers[new[i]].sibling =
                          IF i < Len(new) THEN new[i + 1] ELSE undefined
            /\ children = <<>> => fibers[f].child = undefined

\* C20 witness: a fiber with three child elements has been reconciled
\* against a previous render with two, and a fiber without child elements
\* has been reconciled as well
ThreeChildrenChained ==
    /\ \E f \in Reconciled :
           /\ Len(ChildFibers(fibers, f)) = 3
           /\ Len(OldChildFibers(fibers, f)) = 2
    /\ \E f \in Reconciled :
           /\ fibers[f].element.children = <<>>
           /\ fibers[f].child = undefined

-----------------------------------------------------------------------------

\* the fibers an uninterrupted work loop gives to performUnitOfWork, in
\* order, from currentFiber on
RECURSIVE OrderWithoutYield(_, _, _, _)
OrderWithoutYield(F, N, D, currentFiber) ==
    IF currentFiber = undefined THEN <<>>
    ELSE LET r == performUnitOfWork(F, N, D, currentFiber)
         IN  IF r.result = "threw" THEN <<>>
             ELSE <<currentFiber>>
                  \o OrderWithoutYield(r.fibers, r.nodes, r.oldFibersToDelete, r.next)

\* the order in which pass p works on its fibers when no pass ever yields
UninterruptedOrder(p) ==
    LET w == RendersWithoutYield(p - 1)
    IN  OrderWithoutYield(
            Append(w.fibers, createRootFiber(Container, Rendered(p), w.lastCommitedFiberTree)),
            w.nodes, w.oldFibersToDelete, Len(w.fibers) + 1)

\* the fibers of the tree below f in depth-first pre-order, f first
RECURSIVE PreOrder(_, _)
PreOrder(F, f) ==
    LET children == ChildFibers(F, f)
        RECURSIVE Below(_)
        Below(i) == IF i > Len(children) THEN <<>>
                    ELSE PreOrder(F, children[i]) \o Below(i + 1)
    IN  <<f>> \o Below(1)

IsPrefix(a, b) == Len(a) <= Len(b) /\ a = SubSeq(b, 1, Len(a))

-----------------------------------------------------------------------------

\* pass p has completed a unit of work on its current fiber in this step
UnitDone(p) ==
    /\ passes[p].currentFiber # undefined
    /\ passes'[p].visited = Append(passes[p].visited, passes[p].currentFiber)

\* the element of seq that follows e, undefined when e is the last
Successor(seq, e) ==
    LET i == CHOOSE k \in 1..Len(seq) : seq[k] = e
    IN  IF i < Len(seq) THEN seq[i + 1] ELSE undefined

\* the nearest of f and its ancestors that has a sibling, undefined when
\* there is none
RECURSIVE NearestWithSibling(_, _)
NearestWithSibling(F, f) ==
    IF f = undefined THEN undefined
    ELSE IF F[f].sibling # undefined THEN f
    ELSE NearestWithSibling(F, F[f].parent)

-----------------------------------------------------------------------------

\* the fibers of the last committed tree that have the host node of the
\* deletion fiber d: the fiber d was recorded for
PreviousFiberOf(d) ==
    {o \in FiberTree(fibers, lastCommitedFiberTree) :
        fibers[d].dom # undefined /\ fibers[o].dom = fibers[d].dom}

\* the position in ops of the first removal of host node n, 0 when there is none
RemovalIn(ops, n) ==
    IF \E i \in 1..Len(ops) : ops[i].op = "removeChild" /\ ops[i].node = n
    THEN CHOOSE i \in 1..Len(ops) :
             /\ ops[i].op = "removeChild" /\ ops[i].node = n
             /\ \A j \in 1..(i - 1) : ~(ops[j].op = "removeChild" /\ ops[j].node = n)
    ELSE 0

\* C23: a commit removes, for every pending deletion fiber, the host node of
\* every descendant of the previous fiber from its parent host node before
\* it removes the fiber's own host node from its parent, and after the
\* commit none of these host nodes is in the host tree under the container
PendingSubtreesRemovedBottomUp ==
    [][CommitStep =>
          \A i \in 1..Len(oldFibersToDelete) :
              LET d == oldFibersToDelete[i]
              IN  \A o \in PreviousFiberOf(d) :
                      /\ RemovalIn(hostOps', fibers[d].dom) > 0
                      /\ hostOps'[RemovalIn(hostOps', fibers[d].dom)].parent
                             = fibers[fibers[d].parent].dom
                      /\ fibers[d].dom \notin Attached(nodes', Container)
                      /\ \A x \in Descendants(fibers, o) :
                             /\ fibers[x].dom \notin Attached(nodes', Container)
                             /\ RemovalIn(hostOps', fibers[x].dom) > 0
                             /\ RemovalIn(hostOps', fibers[x].dom)
                                    < RemovalIn(hostOps', fibers[d].dom)]_vars

-----------------------------------------------------------------------------

(* Longer sequences of renders of the trees that leave fibers without a    *)
(* host node                                                               *)

\* the number of renders in such a sequence
MaxSkipRenders == 4

\* div > ["hi" > b, p, span]: a text element that was given a child, before
\* two other children
TreeTextFirst ==
    createElement("div", {},
        <<[type |-> PRIMITIVE_ELEMENT_TYPE, nodeValue |-> "hi", attrs |-> {},
           children |-> <<createElement("b", {}, <<>>)>>],
          createElement("p", {}, <<>>),
          createElement("span", {}, <<>>)>>)

SkipTrees == {TreeTextParent, TreeHi, TreePara, TreeSwapped, TreeTextFirst}

\* render(container, element) by a caller that waits for the commit of the
\* pass before
RenderSkipTree(element) ==
    /\ Len(passes) < MaxSkipRenders
    /\ \A p \in Passes : ~Outstanding(p)
    /\ fibers' = Append(fibers, createRootFiber(Container, element, lastCommitedFiberTree))
    /\ passes' = Append(passes, startWorkLoop(Len(fibers) + 1))
    /\ slots' = 0
    /\ UNCHANGED <<nodes, lastCommitedFiberTree, oldFibersToDelete, hostOps>>

NextSkip ==
    \/ \E element \in SkipTrees : RenderSkipTree(element)
    \/ \E p \in Passes : IdleCallback(p)
    \/ \E p \in Passes : PerformWork(p)
    \/ \E p \in Passes : Commit(p)

SpecSkip == Init /\ [][NextSkip]_vars

\* the fibers commitWork(fiber) commits, in order: the recursion of
\* commitWork without the host operations
RECURSIVE CommitVisits(_, _)
CommitVisits(F, fiber) ==
    IF ~checksIfFiberHasDom(F, fiber) THEN <<>>
    ELSE <<fiber>> \o CommitVisits(F, F[fiber].child) \o CommitVisits(F, F[fiber].sibling)

\* the appendChild operations among ops, in order
Appends(ops) == SelectSeq(ops, LAMBDA o : o.op = "appendChild")

\* the position of the attachment of host node n in ops, 0 when there is none
AppendOf(ops, n) ==
    IF \E i \in 1..Len(ops) : ops[i].op = "appendChild" /\ ops[i].node = n
    THEN CHOOSE i \in 1..Len(ops) : ops[i].op = "appendChild" /\ ops[i].node = n
    ELSE 0

\* C24: a commit goes through the fibers of the new tree that have a host
\* node in depth-first pre-order and leaves none of them out; the host
\* nodes it attaches are those of the PLACEMENT fibers, in that order, so
\* the host node of a PLACEMENT fiber is attached to its parent's host node
\* before the host node of any of its children is attached to it
CommitVisitsInPreOrder ==
    [][CommitStep =>
          LET root == passes[CommittingPass].rootFiber
              order == PreOrder(fibers, root)
              withDom == SelectSeq(order, LAMBDA f : fibers[f].dom # undefined)
              placed == SelectSeq(withDom, LAMBDA f : /\ fibers[f].effect = "PLACEMENT"
                                                      /\ canAppendToParent(fibers, f))
              appends == Appends(hostOps')
          IN  /\ CommitVisits(fibers, root) = withDom
              /\ Len(appends) = Len(placed)
              /\ \A i \in 1..Len(placed) :
                     appends[i] = HostOp("appendChild", fibers[fibers[placed[i]].parent].dom,
                                         fibers[placed[i]].dom)
              /\ \A i \in 1..Len(placed) :
                     \A g \in Range(ChildFibers(fibers, placed[i])) :
                         AppendOf(hostOps', fibers[g].dom) > 0 =>
                             /\ AppendOf(hostOps', fibers[placed[i]].dom) > 0
                             /\ AppendOf(hostOps', fibers[placed[i]].dom)
                                    < AppendOf(hostOps', fibers[g].dom)]_vars

-----------------------------------------------------------------------------
(* startWorkLoop called with root fibers of any effect, with or without a  *)
(* parent fiber                                                            *)

RootEffects == {"NONE", "PLACEMENT", "UPDATE", "DELETION"}

\* the number of such passes in a behaviour
MaxRootPasses == 2

\* The fibers of a pass whose root fiber is as createRootFiber builds it but
\* for its effect and, with hasParent, for a parent fiber that has a host
\* node of its own (the second node of the document); start is the
\* position of the root fiber among them
RootFibers(effect, hasParent, element, base, last) ==
    LET root == [createRootFiber(Container, element, last) EXCEPT !.effect = effect]
    IN  IF hasParent
        THEN [fibers |-> <<NewFiber(Orphan, SecondContainer, undefined, undefined, "NONE"),
                           [root EXCEPT !.parent = base + 1]>>,
              start |-> 2]
        ELSE [fibers |-> <<root>>, start |-> 1]

\* startWorkLoop(rootFiber) by a caller that waits for the commit of the
\* pass before
StartRoot(effect, hasParent, element) ==
    /\ Len(passes) < MaxRootPasses
    /\ \A p \in Passes : ~Outstanding(p)
    /\ LET m == RootFibers(effect, hasParent, element, Len(fibers), lastCommitedFiberTree)
       IN  /\ fibers' = fibers \o m.fibers
           /\ passes' = Append(passes, startWorkLoop(Len(fibers) + m.start))
    /\ slots' = 0
    /\ UNCHANGED <<nodes, lastCommitedFiberTree, oldFibersToDelete, hostOps>>

RootTrees == {TreeHi, TreeTwo}

NextRootEffects ==
    \/ \E effect \in RootEffects : \E hasParent \in BOOLEAN : \E element \in RootTrees :
           StartRoot(effect, hasParent, element)
    \/ \E p \in Passes : IdleCallback(p)
    \/ \E p \in Passes : PerformWork(p)
    \/ \E p \in Passes : Commit(p)

SpecRootEffects == InitTwoContainers /\ [][NextRootEffects]_vars

\* C25: a commit attaches the host node of every PLACEMENT fiber it goes
\* through, the root fiber apart, to the host node of the fiber's parent,
\* where it is a child after the commit; and whatever the effect of the
\* root fiber and whether or not it has a parent, no operation of the
\* commit attaches or removes the root fiber's host node, which is the
\* child of no host node after the commit
PlacementAttachesToParentNeverRoot ==
    [][CommitStep =>
          LET root == passes[CommittingPass].rootFiber
          IN  /\ \A f \in Range(CommitVisits(fibers, root)) :
                     (fibers[f].effect = "PLACEMENT" /\ f # root) =>
                         /\ AppendOf(hostOps', fibers[f].dom) > 0
                         /\ hostOps'[AppendOf(hostOps', fibers[f].dom)].parent
                                = fibers[fibers[f].parent].dom
                         /\ fibers[f].dom \in Range(nodes'[fibers[fibers[f].parent].dom].children)
              /\ \A i \in 1..Len(hostOps') : hostOps'[i].node # fibers[root].dom
              /\ HostParent(nodes', fibers[root].dom) = undefined]_vars

\* C25 witness: a pass whose root fiber is PLACEMENT and has a parent with
\* a host node has committed, and its commit attached the host nodes of
\* the fibers below the root
PlacementRootWithParentCommitted ==
    \E p \in Passes :
        /\ passes[p].status = "committed"
        /\ fibers[passes[p].rootFiber].effect = "PLACEMENT"
        /\ fibers[passes[p].rootFiber].parent # undefined
        /\ lastCommitedFiberTree = passes[p].rootFiber
        /\ Len(Appends(hostOps)) >= 2
        /\ hostOps[1].parent = Container

-----------------------------------------------------------------------------

\* the children of every host node: the shape of the document with the
\* identities of the nodes
ChildrenOf(N) == [n \in 1..Len(N) |-> N[n].children]

\* the number of writes of the node value of n among ops
ValueWrites(ops, n) ==
    Cardinality({i \in 1..Len(ops) : ops[i].op = "nodeValue" /\ ops[i].node = n})

\* C26: for every UPDATE fiber a commit goes through, commitUpdate leaves
\* the children of every host node as they are and performs no attachment
\* and no removal; when the host node is a text node it writes the node
\* value if and only if the text of the new element differs from the text
\* of the previous element, the commit writes it at most that once, and
\* after the commit the text node holds the text of the new element
UpdateKeepsShapeWritesChangedText ==
    [][CommitStep =>
          \A f \in Range(CommitVisits(fibers, passes[CommittingPass].rootFiber)) :
              fibers[f].effect = "UPDATE" =>
                  LET dom == fibers[f].dom
                      st == commitUpdate(fibers, [nodes |-> nodes, ops |-> <<>>, ok |-> TRUE], f)
                      changed == /\ fibers[f].alternate # undefined
                                 /\ fibers[f].element.nodeValue
                                        # fibers[fibers[f].alternate].element.nodeValue
                  IN  /\ st.ok
                      /\ ChildrenOf(st.nodes) = ChildrenOf(nodes)
                      /\ \A i \in 1..Len(st.ops) : st.ops[i].op = "nodeValue"
                      /\ \A i \in 1..Len(hostOps') :
                             hostOps'[i].op = "appendChild" => hostOps'[i].node # dom
                      /\ isTextHTMLNode(nodes, dom) =>
                             /\ st.ops # <<>> <=> changed
                             /\ st.nodes[dom].nodeValue = fibers[f].element.nodeValue
                             /\ ValueWrites(hostOps', dom) = IF changed THEN 1 ELSE 0
                             /\ nodes'[dom].nodeValue = fibers[f].element.nodeValue]_vars

-----------------------------------------------------------------------------
(* Renders of elements that have props besides their children *)

\* div with id "a" > "hi"
DivIdA == createElement("div", {<<"id", "a">>}, <<Hi>>)

\* div with id "b" > "hi"
DivIdB == createElement("div", {<<"id", "b">>}, <<Hi>>)

\* div with className "c" > "hi"
DivClassC == createElement("div", {<<"className", "c">>}, <<Hi>>)

PropTrees == {DivIdA, DivIdB, DivClassC}

NextProps ==
    \/ \E element \in PropTrees : RenderAfterCommit(element)
    \/ \E p \in Passes : IdleCallback(p)
    \/ \E p \in Passes : PerformWork(p)
    \/ \E p \in Passes : Commit(p)

SpecProps == Init /\ [][NextProps]_vars

\* the names of the props in attrs
Keys(attrs) == {kv[1] : kv \in attrs}

\* C27: after a commit, the host node of every UPDATE fiber that is not a
\* text node carries every prop of the new element with its new value and
\* none of the props of the previous element that the new element lacks
UpdateReconcilesProps ==
    [][CommitStep =>
          \A f \in Range(CommitVisits(fibers, passes[CommittingPass].rootFiber)) :
              (/\ fibers[f].effect = "UPDATE"
               /\ fibers[f].alternate # undefined
               /\ ~isTextHTMLNode(nodes, fibers[f].dom)) =>
                  LET new == fibers[f].element.attrs
                      old == fibers[fibers[f].alternate].element.attrs
                      has == nodes'[fibers[f].dom].attrs
                  IN  /\ new \subseteq has
                      /\ \A k \in Keys(old) \ Keys(new) : k \notin Keys(has)]_vars

-----------------------------------------------------------------------------

\* the fibers a commit of the pass with root fiber root has before it: the
\* fibers of the new tree and the pending deletion fibers
FibersAtCommit(root) == FiberTree(fibers, root) \cup Range(oldFibersToDelete)

\* fiber f has no host node, or is below a fiber that has none
LacksHostNode(f) ==
    \/ fibers[f].dom = undefined
    \/ fibers[f].parent # undefined /\ fibers[fibers[f].parent].dom = undefined

\* C28: a commit that has before it a fiber without a host node, or one
\* whose parent has no host node, raises no error and publishes the root
\* fiber of its pass as the new baseline, and none of its host operations
\* is on the host node of such a fiber
LackingHostNodeSkippedSilently ==
    [][CommitStep =>
          LET root == passes[CommittingPass].rootFiber
              lacking == {f \in FibersAtCommit(root) : LacksHostNode(f)}
          IN  lacking # {} =>
                  /\ passes'[CommittingPass].status = "committed"
                  /\ lastCommitedFiberTree' = root
                  /\ \A f \in lacking : \A i \in 1..Len(hostOps') :
                         fibers[f].dom = undefined \/ hostOps'[i].node # fibers[f].dom]_vars

-----------------------------------------------------------------------------

\* C29: the idle callback of a pass that has a fiber to work on begins its
\* while loop, whatever time the slot has left; the first thing a work loop
\* inside its while loop does is a unit of work; and a work loop goes from
\* running to waiting for a callback only in a step in which a unit of
\* work has completed
UnitOfWorkBeforeBudgetCheck ==
    [][/\ slots' = slots + 1 =>
              \E p \in Passes : /\ passes[p].status = "scheduled"
                                /\ passes'[p].status = "running"
                                /\ passes'[p].currentFiber # undefined
       /\ \A p \in Passes :
              /\ (passes[p].status = "running" /\ passes[p].currentFiber # undefined) =>
                     \/ passes'[p].status = "threw"
                     \/ Worked(p)' = Append(Worked(p), passes[p].currentFiber)
              /\ (passes[p].status = "running" /\ passes'[p].status = "scheduled") =>
                     /\ passes'[p].visited = Append(passes[p].visited, passes[p].currentFiber)
                     /\ passes'[p].currentFiber # undefined]_vars

\* C29 witness: three idle callbacks of a pass have each found no time left
\* after their first unit of work: three fibers are done and the pass waits
\* for its fourth callback
OneUnitInEachOfThreeSlots ==
    /\ LastPass >= 1
    /\ Rendered(LastPass) = TreeSpans
    /\ passes[LastPass].status = "scheduled"
    /\ slots = 3
    /\ Len(passes[LastPass].visited) = 3

-----------------------------------------------------------------------------

\* C30: no step changes a fiber of the last committed tree: its element,
\* child, sibling, parent, alternate, effect and host-node reference are
\* after every render, unit of work and commit what they were before it
BaselineFibersAreReadOnly ==
    [][\A g \in FiberTree(fibers, lastCommitedFiberTree) :
          /\ g \in 1..Len(fibers')
          /\ fibers'[g] = fibers[g]]_vars

\* C30 witness: after the commit of div > [span, p] the same tree with the
\* children swapped was rendered, walked and committed, and the six fibers
\* of the first tree are still linked and tagged as their own pass left them
OldTreeIntactAfterLaterCommit ==
    /\ SecondRenderCommitted
    /\ Rendered(LastPass - 1) = TreeTwo
    /\ Rendered(LastPass) = TreeSwapped
    /\ LET old == FiberTree(fibers, passes[LastPass - 1].rootFiber)
       IN  /\ Cardinality(old) = 6
           /\ \A g \in old \ {passes[LastPass - 1].rootFiber} :
                  /\ fibers[g].effect \in {"PLACEMENT", "UPDATE"}
                  /\ fibers[g].dom # undefined
                  /\ fibers[g].parent \in old

-----------------------------------------------------------------------------

\* the host nodes the commit of this step has removed from their parent:
\* those of its removeChild operations that did not throw
RemovedByCommit ==
    {hostOps'[i].node : i \in {j \in 1..Len(hostOps') :
        /\ hostOps'[j].op = "removeChild"
        /\ j < Len(hostOps') \/ passes'[CommittingPass].status = "committed"}}

\* C31: after every commit no fiber of the last committed tree is a
\* DELETION fiber, and none carries a host node that the commit removed
NoDeletedFiberInBaseline ==
    [][CommitStep =>
          \A g \in FiberTree(fibers, lastCommitedFiberTree') :
              /\ fibers[g].effect # "DELETION"
              /\ fibers[g].dom \notin RemovedByCommit]_vars

-----------------------------------------------------------------------------

\* C32: after a commit the children of the host node of every fiber the
\* commit went through are the children the node had before, without those
\* the commit removed and in the order they had, followed by the host
\* nodes of the PLACEMENT children of the fiber, in the order of the new
\* children: the host nodes of the reused children keep their relative
\* order and every placed host node comes after all of them
PlacementsAppendAfterReused ==
    [][CommitStep =>
          LET visits == CommitVisits(fibers, passes[CommittingPass].rootFiber)
          IN  \A f \in Range(visits) :
                  ~isTextHTMLNode(nodes, fibers[f].dom) =>
                      LET placed == SelectSeq(ChildFibers(fibers, f),
                                        LAMBDA g : /\ fibers[g].effect = "PLACEMENT"
                                                   /\ g \in Range(visits))
                          kept == SelectSeq(nodes[fibers[f].dom].children,
                                            LAMBDA n : n \notin RemovedByCommit)
                          after == nodes'[fibers[f].dom].children
                      IN  /\ after = kept \o [i \in 1..Len(placed) |-> fibers[placed[i]].dom]
                          /\ \A i, j \in 1..Len(after) :
                                 (/\ \E u \in Range(ChildFibers(fibers, f)) :
                                        fibers[u].effect = "UPDATE" /\ fibers[u].dom = after[i]
                                  /\ \E g \in Range(placed) : fibers[g].dom = after[j])
                                 => i < j]_vars

\* C32 witness: div > span was committed and then div > [p, span]: the host
\* node of the new p, the first child of the element, is the last child of
\* the host node of the div, after the reused span
NewFirstChildPlacedLast ==
    /\ SecondRenderCommitted
    /\ Rendered(LastPass - 1) = TreeHi
    /\ Rendered(LastPass) = TreeSwapped
    /\ LET div == fibers[fibers[passes[LastPass].rootFiber].child].dom
       IN  /\ Len(nodes[div].children) = 2
           /\ nodes[nodes[div].children[1]].tag = "span"
           /\ nodes[nodes[div].children[2]].tag = "p"

-----------------------------------------------------------------------------

\* the members of a set of fibers in the order in which they were made
RECURSIVE InOrder(_)
InOrder(S) ==
    IF S = {} THEN <<>>
    ELSE LET first == CHOOSE x \in S : \A y \in S : x <= y
         IN  <<first>> \o InOrder(S \ {first})

\* the deletion fibers recorded under f for previous children of type t, in
\* the order in which they were recorded
DeletionsOfType(f, t) ==
    InOrder({d \in 1..Len(fibers) : /\ fibers[d].effect = "DELETION"
                                    /\ fibers[d].parent = f
                                    /\ fibers[d].element.type = t})

Min(a, b) == IF a <= b THEN a ELSE b

Max(a, b) == IF a >= b THEN a ELSE b

\* C33: for a reconciled fiber f and a type t with o previous children and
\* n new children of that type, min(o, n) of the new children are UPDATE
\* and max(0, n - o) are PLACEMENT, and there are max(0, o - n) deletion
\* fibers of the type, which are, in order, those of the last o - n
\* previous children of the type
CountsPerType ==
    \A f \in Reconciled :
        \A t \in TypesOf(ChildFibers(fibers, f)) \cup TypesOf(OldChildFibers(fibers, f)) :
            LET old == SelectSeq(OldChildFibers(fibers, f),
                                 LAMBDA g : fibers[g].element.type = t)
                new == SelectSeq(ChildFibers(fibers, f),
                                 LAMBDA g : fibers[g].element.type = t)
                o == Len(old)
                n == Len(new)
                deleted == DeletionsOfType(f, t)
            IN  /\ Len(SelectSeq(new, LAMBDA g : fibers[g].effect = "UPDATE")) = Min(o, n)
                /\ Len(SelectSeq(new, LAMBDA g : fibers[g].effect = "PLACEMENT"))
                       = Max(0, n - o)
                /\ Len(deleted) = Max(0, o - n)
                /\ \A k \in 1..Len(deleted) :
                       /\ n + k <= o
                       /\ fibers[deleted[k]].element = fibers[old[n + k]].element
                       /\ fibers[deleted[k]].dom = fibers[old[n + k]].dom
                       /\ \A g \in Range(new) : fibers[g].alternate # old[n + k]

\* C33 witness: a fiber with two spans in the previous render and one in
\* the new one has been reconciled: the new span is UPDATE and the one
\* deletion fiber has the host node of the second previous span
SecondOfTwoSpansDeleted ==
    \E f \in Reconciled :
        LET old == OldChildFibers(fibers, f)
            new == ChildFibers(fibers, f)
        IN  /\ Len(old) = 2 /\ Len(new) = 1
            /\ TypesOf(old) = {"span"} /\ TypesOf(new) = {"span"}
            /\ fibers[new[1]].effect = "UPDATE"
            /\ Len(DeletionsOfType(f, "span")) = 1
            /\ fibers[DeletionsOfType(f, "span")[1]].dom = fibers[old[2]].dom
            /\ fibers[old[1]].dom # fibers[old[2]].dom

-----------------------------------------------------------------------------

\* C34: in a pass of render over an element tree whose text elements have
\* no children, whatever was rendered before, no unit of work throws and
\* none takes the branch for a text parent, and every fiber worked on but
\* the root fiber has a parent whose host node exists and is not a text node
WellFormedTreeNeverSkipsOrThrows ==
    \A p \in Passes :
        WellFormed(Rendered(p)) =>
            /\ ~AbortedInWalk(p)
            /\ passes[p].skipped = <<>>
            /\ \A f \in Range(passes[p].visited) \ {passes[p].rootFiber} :
                   /\ fibers[f].parent # undefined
                   /\ fibers[fibers[f].parent].dom # undefined
                   /\ ~isTextHTMLNode(nodes, fibers[fibers[f].parent].dom)

\* C34 witness: after the commit of the tree with the text element that has
\* a child, the walk over div > [span > "hi", p > "bye"] has ended with a
\* unit of work on each of its six fibers
WellFormedWalkedAfterTextParent ==
    /\ RenderedAfterCommit
    /\ Rendered(LastPass - 1) = TreeTextParent
    /\ Rendered(LastPass) = TreeTwo
    /\ WalkOver(LastPass)
    /\ Len(passes[LastPass].visited) = 6

-----------------------------------------------------------------------------

\* C35: no commit of a sequence of non-overlapping renders throws: every
\* removeChild it performs is given a child of the parent it is called on
\* (a removeChild that is not given one throws and ends the commit, and
\* nothing else in a commit of these renders throws), so every commit ends
\* committed
NoCommitFailsOnRemoval ==
    [][CommitStep => passes'[CommittingPass].status = "committed"]_vars

-----------------------------------------------------------------------------

\* the deletion fibers recorded by the walk of pass p
RecordedBy(p) ==
    {d \in 1..Len(fibers) :
        /\ fibers[d].effect = "DELETION"
        /\ fibers[d].parent \in FiberTree(fibers, passes[p].rootFiber)}

\* C36: at the end of a walk no two fibers of the new tree have the same
\* host node, and no fiber of the new tree has the host node of a deletion
\* fiber recorded by the same walk
HostNodesOfNewTreeDistinct ==
    \A p \in Passes :
        WalkOver(p) =>
            LET tree == FiberTree(fibers, passes[p].rootFiber)
            IN  /\ \A f, g \in tree :
                       (fibers[f].dom # undefined /\ fibers[f].dom = fibers[g].dom) => f = g
                /\ \A f \in tree : \A d \in RecordedBy(p) :
                       fibers[d].dom # undefined => fibers[f].dom # fibers[d].dom

\* C36 witness: a walk has ended with a fiber that took over the host node
\* of its previous-render fiber, a fiber with a host node of its own, and a
\* deletion fiber with a host node
WalkEndedWithReusedNewAndDeletedHostNodes ==
    \E p \in Passes :
        /\ WalkOver(p)
        /\ \E f, g \in FiberTree(fibers, passes[p].rootFiber) :
               /\ fibers[f].effect = "UPDATE"
               /\ fibers[f].dom # undefined
               /\ fibers[f].dom = fibers[fibers[f].alternate].dom
               /\ fibers[g].effect = "PLACEMENT"
               /\ fibers[g].dom # undefined
        /\ \E d \in RecordedBy(p) : fibers[d].dom # undefined

-----------------------------------------------------------------------------

\* the deletion fibers recorded under the new fiber f, in the order of their
\* recording
RecordsUnder(f) ==
    InOrder({d \in 1..Len(fibers) : fibers[d].effect = "DELETION" /\ fibers[d].parent = f})

\* the previous-render children of f that no new child of f was matched with
UnmatchedOldFibers(f) ==
    SelectSeq(OldChildFibers(fibers, f), LAMBDA o : ~Claimed(f, o))

\* the previous-render fibers the walk of pass p has recorded for deletion
RecordedOldFibers(p) ==
    UNION {Range(UnmatchedOldFibers(f)) :
               f \in FiberTree(fibers, passes[p].rootFiber) \cap Range(passes[p].visited)}

\* the step is a commit that calls removeChild for no host node twice
NoHostNodeRemovedTwice ==
    CommitStep =>
        \A i, j \in 1..Len(hostOps') :
            (/\ hostOps'[i].op = "removeChild"
             /\ hostOps'[j].op = "removeChild"
             /\ hostOps'[i].node = hostOps'[j].node) => i = j

\* C37: within a pass the deletion fibers recorded under a reconciled fiber
\* are, one for one, those of its unmatched previous-render children, so
\* none is recorded twice; no recorded previous-render fiber is a descendant
\* of another one; and no commit removes a host node twice
EachOldFiberRecordedOnce ==
    [][/\ \A p \in Passes :
              /\ \A f \in FiberTree(fibers', passes'[p].rootFiber) \cap Range(passes'[p].visited) :
                     /\ Len(RecordsUnder(f)') = Len(UnmatchedOldFibers(f)')
                     /\ \A k \in 1..Len(RecordsUnder(f)') :
                            /\ fibers'[RecordsUnder(f)'[k]].element
                                   = fibers'[UnmatchedOldFibers(f)'[k]].element
                            /\ fibers'[RecordsUnder(f)'[k]].dom
                                   = fibers'[UnmatchedOldFibers(f)'[k]].dom
              /\ \A o1, o2 \in RecordedOldFibers(p)' : o2 \notin Descendants(fibers', o1)
              /\ \A d1, d2 \in RecordedBy(p)' :
                     (fibers'[d1].dom # undefined /\ fibers'[d1].dom = fibers'[d2].dom)
                         => d1 = d2
       /\ NoHostNodeRemovedTwice]_vars

-----------------------------------------------------------------------------

\* the callbacks of pass p are over: it has committed, or an exception has
\* ended its callback
Over(p) == passes[p].status \in {"committed", "threw"}

\* C38: a pass never has more than one idle callback registered, and none
\* once it has committed or an exception has ended its callback: a pass that
\* is over never changes again; and no fiber has a unit of work twice in a
\* pass
OneIdleCallbackPerPass ==
    [][\A p \in Passes :
          /\ passes[p].pending \in {0, 1}
          /\ Over(p) => passes[p].pending = 0 /\ passes'[p] = passes[p]
          /\ NoDuplicates(Worked(p))]_vars

\* C38 witness: a pass whose walk took three callbacks has committed, after
\* a pass that a fatal error in a unit of work ended, and neither has a
\* callback registered
CommittedAfterYieldsAndAbortedPass ==
    /\ passes # <<>>
    /\ passes[LastPass].status = "committed"
    /\ passes[LastPass].pending = 0
    /\ slots >= 3
    /\ \E p \in Passes : AbortedInWalk(p) /\ passes[p].pending = 0

-----------------------------------------------------------------------------

\* the removeChild calls commitDeletion makes for the pending deletion
\* fibers D
RemovalsOf(D) ==
    {HostOp("removeChild", fibers[fibers[D[k]].parent].dom, fibers[D[k]].dom) :
         k \in {j \in 1..Len(D) : /\ fibers[D[j]].dom # undefined
                                  /\ fibers[fibers[D[j]].parent].dom # undefined}}

\* C39: no PLACEMENT fiber has an alternate; every removeChild of a commit
\* is the one commitDeletion makes for a pending deletion fiber, none is made
\* by commitPlacement; and a host node leaves the host tree under the
\* container only in a commit, as or below the host node of a pending
\* deletion fiber
PlacementNeverRemoves ==
    [][/\ \A f \in 1..Len(fibers') :
              fibers'[f].effect = "PLACEMENT" => fibers'[f].alternate = undefined
       /\ CommitStep =>
              \A i \in 1..Len(hostOps') :
                  hostOps'[i].op = "removeChild" => hostOps'[i] \in RemovalsOf(oldFibersToDelete)
       /\ \A n \in Attached(nodes, Container) \ Attached(nodes', Container) :
              /\ CommitStep
              /\ \E k \in 1..Len(oldFibersToDelete) :
                     /\ fibers[oldFibersToDelete[k]].dom # undefined
                     /\ n \in Attached(nodes, fibers[oldFibersToDelete[k]].dom)]_vars

\* C39 witness: the last commit has attached the host node of a PLACEMENT
\* fiber under a parent with a previous render and has removed the host
\* node of a pending deletion fiber from that parent
PlacedAndRemovedUnderOneParent ==
    /\ passes # <<>>
    /\ passes[LastPass].status = "committed"
    /\ \E f \in FiberTree(fibers, passes[LastPass].rootFiber) :
           /\ fibers[f].effect = "PLACEMENT"
           /\ fibers[fibers[f].parent].alternate # undefined
           /\ OldChildFibers(fibers, fibers[f].parent) # <<>>
           /\ \E i, j \in 1..Len(hostOps) :
                  /\ hostOps[i] = HostOp("appendChild", fibers[fibers[f].parent].dom,
                                         fibers[f].dom)
                  /\ hostOps[j].op = "removeChild"
                  /\ hostOps[j].parent = fibers[fibers[f].parent].dom

====
